---- MODULE Spec2Model ----
(***************************************************************************)
(* Gift planner: the membership and invitation engine of                   *)
(* src/lib/firestore/events.ts and the wishlist item engine of             *)
(* src/lib/firestore/wishlists.ts over a document store.                   *)
(*                                                                         *)
(* Every engine function is an async read-modify-write: getDoc resolves    *)
(* with a snapshot, the function computes an update from that snapshot in  *)
(* one synchronous stretch, and updateDoc replaces the named fields of the *)
(* stored document as a whole. Calls of different tasks interleave between *)
(* their awaits, so a call may write an update computed from a stale       *)
(* snapshot.                                                               *)
(*                                                                         *)
(* Spec is the behaviour of the event engine, SpecWishlist that of the     *)
(* wishlist engine: no function of one reads or writes the collection of   *)
(* the other.                                                              *)
(*                                                                         *)
(* Not modelled: createdAt, eventDate and invitedAt (timestamps that no    *)
(* engine function reads).                                                 *)
(***************************************************************************)
EXTENDS Integers, Sequences, FiniteSets, TLC

\* ---------------------------------------------------------------- bounds

\* Number of engine calls that can be in flight at once.
MaxCalls == 2
\* Number of event engine calls started in one behaviour.
MaxOps == 5
\* Number of wishlist engine calls started in one behaviour.
MaxWishlistOps == 4

\* The document ids addDoc can hand out.
EventIds == {"E1"}
Tasks == 1..MaxCalls
Users == {"U1", "U2"}
Emails == {"a@x.com", "b@x.com"}
\* The names events are created with, and the names updateEvent is given
\* ("" stands for no name, which updateEvent skips).
Names == {"Party"}
NewNames == {"", "Xmas"}

\* ------------------------------------------------------------------ state

VARIABLES
    events,   \* the events collection: id -> document, for the documents that exist
    issued,   \* the ids addDoc has handed out
    calls,    \* task -> the engine call it has in flight (between two awaits)
    ops,      \* number of engine calls started so far
    last,     \* the call that settled last: its function, arguments and outcome,
              \* the document it had read and the stored document it settled on
    wishlists,   \* the wishlists collection: id -> document, for the documents that exist
    assignments, \* the assignments collection: id -> document, likewise
    subs         \* the live queries: subscriber -> what it asked for and was told

vars == <<events, issued, calls, ops, last, wishlists, assignments, subs>>

\* ---------------------------------------------------------------- helpers

Ok == "ok"
EventNotFound == "Event not found"
AlreadyInvited == "User already invited"
InvitationNotFound == "Invitation not found or already processed"
AlreadyMember == "User is already a member of this event"
CannotRemoveCreator == "Cannot remove the event creator"
NotAMember == "User is not a member of this event"
\* The store rejects updateDoc on a document that does not exist.
NoDocumentToUpdate == "No document to update"
NoUserData == "null"

\* Array.prototype.findIndex, given the set of the (1-based) positions whose
\* element passes the test: the 0-based index of the first of them, or -1.
findIndex(passing) ==
    IF passing = {} THEN -1
    ELSE (CHOOSE i \in passing : \A j \in passing : i <= j) - 1

\* Array.prototype.includes
includes(arr, x) == \E i \in 1..Len(arr) : arr[i] = x

\* arr with the element at 0-based index idx replaced by x
setAt(arr, idx, x) == [arr EXCEPT ![idx + 1] = x]

mergeFields_arrayUnion(docData, data) ==
    LET isNew(x) == \A i \in 1..Len(docData.items) : docData.items[i] # x
    IN  [f \in DOMAIN docData |->
            IF f \notin DOMAIN data THEN docData[f]
            ELSE IF f = "items" THEN docData[f] \o SelectSeq(data[f], isNew)
            ELSE data[f]]

\* Mutant: a stored invitation record that is accepted survives the write of
\* an array that holds the same record as pending.
mergeFields_keepAccepted(docData, data) ==
    LET kept(f, i) ==
            /\ f = "invitations"
            /\ i <= Len(docData[f])
            /\ docData[f][i].email = data[f][i].email
            /\ docData[f][i].status = "accepted"
    IN  [f \in DOMAIN docData |->
            IF f \notin DOMAIN data THEN docData[f]
            ELSE IF f = "invitations"
            THEN [i \in 1..Len(data[f]) |->
                     IF kept(f, i) THEN docData[f][i] ELSE data[f][i]]
            ELSE data[f]]

\* updateDoc(ref, data): the fields named in data replace the stored fields,
\* every other field stays.
mergeFields(docData, data) ==
    [f \in DOMAIN docData |-> IF f \in DOMAIN data THEN data[f] ELSE docData[f]]

\* --------------------------------------------------------------- createEvent

createEventData(name, createdBy) ==
    [name |-> name,
     createdBy |-> createdBy,
     members |-> <<createdBy>>,
     invitations |-> <<>>]

\* ---------------------------------------------------------------- getUserData

\* The users collection: users/{uid}.email of the profiles that were written
\* at sign-up.
userEmail == [u \in Users |-> IF u = "U1" THEN "a@x.com" ELSE "b@x.com"]

\* What reading users/{uid} can come to: the document is there, it is not
\* there, the rules deny the read, or the read fails for another reason.
ReadOutcomes == {"exists", "missing", "permission-denied", "unavailable"}

\* The variant of getUserData at auth.ts 99-109: every failed read throws.
getUserData_throwing(userId, outcome) ==
    CASE outcome = "exists" ->
            [thrown |-> FALSE, email |-> userEmail[userId]]
      [] outcome = "missing" ->
            [thrown |-> FALSE, email |-> NoUserData]
      [] OTHER ->
            [thrown |-> TRUE, email |-> NoUserData]

\* getUserData(userId): the profile, null, or a thrown error. A read the
\* rules deny (error.code 'permission-denied', or a message that speaks of
\* permission) is caught and gives null.
getUserData(userId, outcome) ==
    CASE outcome = "exists" ->
            [thrown |-> FALSE, email |-> userEmail[userId]]
      [] outcome = "missing" ->
            [thrown |-> FALSE, email |-> NoUserData]
      [] outcome = "permission-denied" ->
            [thrown |-> FALSE, email |-> NoUserData]
      [] OTHER ->
            [thrown |-> TRUE, email |-> NoUserData]

\* ---------------------------------------------------------- inviteUserToEvent

pendingInvitation(email, invitedBy) ==
    [email |-> email, status |-> "pending", invitedBy |-> invitedBy]

\* Mutant: the search compares the wrong field, so it never finds a record.
existingInvitationIndex_wrongField(eventData, email) ==
    findIndex({i \in 1..Len(eventData.invitations) :
                   eventData.invitations[i].invitedBy = email})

\* Mutant: the search sees pending records only, so a record that was
\* accepted or rejected is not reused.
existingInvitationIndex_pendingOnly(eventData, email) ==
    findIndex({i \in 1..Len(eventData.invitations) :
                   /\ eventData.invitations[i].email = email
                   /\ eventData.invitations[i].status = "pending"})

\* eventData.invitations.findIndex((inv) => inv.email === email)
existingInvitationIndex(eventData, email) ==
    findIndex({i \in 1..Len(eventData.invitations) :
                   eventData.invitations[i].email = email})

\* Mutant: the pending check is missing, a pending record is overwritten.
inviteUserToEvent_noPendingCheck(eventData, email, invitedBy) ==
    LET idx == existingInvitationIndex(eventData, email)
    IN  IF idx # -1
        THEN [error |-> Ok,
              data |-> [invitations |->
                  setAt(eventData.invitations, idx,
                        pendingInvitation(email, invitedBy))]]
        ELSE [error |-> Ok,
              data |-> [invitations |->
                  Append(eventData.invitations,
                         pendingInvitation(email, invitedBy))]]

\* Mutant: a re-invite appends a new record instead of reusing the old one.
inviteUserToEvent_appendAlways(eventData, email, invitedBy) ==
    LET idx == existingInvitationIndex(eventData, email)
    IN  IF idx # -1 /\ eventData.invitations[idx + 1].status = "pending"
        THEN [error |-> AlreadyInvited]
        ELSE [error |-> Ok,
              data |-> [invitations |->
                  Append(eventData.invitations,
                         pendingInvitation(email, invitedBy))]]

\* Mutant: the new record goes to the front of the array.
inviteUserToEvent_prepend(eventData, email, invitedBy) ==
    LET idx == existingInvitationIndex(eventData, email)
    IN  IF idx # -1
        THEN IF eventData.invitations[idx + 1].status = "pending"
             THEN [error |-> AlreadyInvited]
             ELSE [error |-> Ok,
                   data |-> [invitations |->
                       setAt(eventData.invitations, idx,
                             pendingInvitation(email, invitedBy))]]
        ELSE [error |-> Ok,
              data |-> [invitations |->
                  <<pendingInvitation(email, invitedBy)>>
                      \o eventData.invitations]]

\* Mutant: an accepted record is taken as an invitation that stands.
inviteUserToEvent_acceptedStands(eventData, email, invitedBy) ==
    LET idx == existingInvitationIndex(eventData, email)
    IN  IF idx # -1
        THEN IF eventData.invitations[idx + 1].status \in {"pending", "accepted"}
             THEN [error |-> AlreadyInvited]
             ELSE [error |-> Ok,
                   data |-> [invitations |->
                       setAt(eventData.invitations, idx,
                             pendingInvitation(email, invitedBy))]]
        ELSE [error |-> Ok,
              data |-> [invitations |->
                  Append(eventData.invitations,
                         pendingInvitation(email, invitedBy))]]

\* The synchronous stretch of inviteUserToEvent after getDoc resolved with
\* eventData: the error it throws, or the data it hands to updateDoc.
inviteUserToEvent(eventData, email, invitedBy) ==
    LET idx == existingInvitationIndex(eventData, email)
    IN  IF idx # -1
        THEN IF eventData.invitations[idx + 1].status = "pending"
             THEN [error |-> AlreadyInvited]
             ELSE [error |-> Ok,
                   data |-> [invitations |->
                       setAt(eventData.invitations, idx,
                             pendingInvitation(email, invitedBy))]]
        ELSE [error |-> Ok,
              data |-> [invitations |->
                  Append(eventData.invitations,
                         pendingInvitation(email, invitedBy))]]

\* ----------------------------------------- acceptInvitation, rejectInvitation

\* Mutant: the search takes a record of any status.
invitationIndex_anyStatus(eventData, email) ==
    findIndex({i \in 1..Len(eventData.invitations) :
                   eventData.invitations[i].email = email})

\* eventData.invitations.findIndex(
\*     (inv) => inv.email === email && inv.status === "pending")
invitationIndex(eventData, email) ==
    findIndex({i \in 1..Len(eventData.invitations) :
                   /\ eventData.invitations[i].email = email
                   /\ eventData.invitations[i].status = "pending"})

\* updatedInvitations[invitationIndex] = {...old, status}
withStatus(invitations, idx, status) ==
    setAt(invitations, idx, [invitations[idx + 1] EXCEPT !.status = status])

isMember(eventData, userId) == includes(eventData.members, userId)

\* Mutant: the membership check is missing.
acceptInvitation_noMemberCheck(eventData, userId, email) ==
    LET idx == invitationIndex(eventData, email)
    IN  IF idx = -1 THEN [error |-> InvitationNotFound]
        ELSE [error |-> Ok,
              data |-> [invitations |->
                            withStatus(eventData.invitations, idx, "accepted"),
                        members |-> Append(eventData.members, userId)]]

\* Mutant: the write carries the members only, the status is left behind.
acceptInvitation_membersOnly(eventData, userId, email) ==
    LET idx == invitationIndex(eventData, email)
    IN  IF idx = -1 THEN [error |-> InvitationNotFound]
        ELSE IF isMember(eventData, userId) THEN [error |-> AlreadyMember]
        ELSE [error |-> Ok,
              data |-> [members |-> Append(eventData.members, userId)]]

\* Mutant: membership is checked before the invitation is looked up.
acceptInvitation_memberFirst(eventData, userId, email) ==
    LET idx == invitationIndex(eventData, email)
    IN  IF isMember(eventData, userId) THEN [error |-> AlreadyMember]
        ELSE IF idx = -1 THEN [error |-> InvitationNotFound]
        ELSE [error |-> Ok,
              data |-> [invitations |->
                            withStatus(eventData.invitations, idx, "accepted"),
                        members |-> Append(eventData.members, userId)]]

acceptInvitation(eventData, userId, email) ==
    LET idx == invitationIndex(eventData, email)
    IN  IF idx = -1 THEN [error |-> InvitationNotFound]
        ELSE IF isMember(eventData, userId) THEN [error |-> AlreadyMember]
        ELSE [error |-> Ok,
              data |-> [invitations |->
                            withStatus(eventData.invitations, idx, "accepted"),
                        members |-> Append(eventData.members, userId)]]

\* Mutant: the search takes an accepted record too.
rejectInvitation_acceptedToo(eventData, email) ==
    LET idx == findIndex({i \in 1..Len(eventData.invitations) :
                   /\ eventData.invitations[i].email = email
                   /\ eventData.invitations[i].status # "rejected"})
    IN  IF idx = -1 THEN [error |-> InvitationNotFound]
        ELSE [error |-> Ok,
              data |-> [invitations |->
                            withStatus(eventData.invitations, idx, "rejected")]]

\* Mutant: the rejected record is dropped from the array.
rejectInvitation_drop(eventData, email) ==
    LET idx == invitationIndex(eventData, email)
        kept(inv) == inv # eventData.invitations[idx + 1]
    IN  IF idx = -1 THEN [error |-> InvitationNotFound]
        ELSE [error |-> Ok,
              data |-> [invitations |-> SelectSeq(eventData.invitations, kept)]]

\* Mutant: the write carries the members that were read as well.
rejectInvitation_withMembers(eventData, email) ==
    LET idx == invitationIndex(eventData, email)
    IN  IF idx = -1 THEN [error |-> InvitationNotFound]
        ELSE [error |-> Ok,
              data |-> [invitations |->
                            withStatus(eventData.invitations, idx, "rejected"),
                        members |-> eventData.members]]

rejectInvitation(eventData, email) ==
    LET idx == invitationIndex(eventData, email)
    IN  IF idx = -1 THEN [error |-> InvitationNotFound]
        ELSE [error |-> Ok,
              data |-> [invitations |->
                            withStatus(eventData.invitations, idx, "rejected")]]

\* ------------------------------------------------------ removeMemberFromEvent

\* eventData.members.filter((id) => id !== memberId)
updatedMembers(eventData, memberId) ==
    LET other(id) == id # memberId
    IN  SelectSeq(eventData.members, other)

\* Mutant: the membership check is missing.
removeMemberFromEvent_noMemberCheck(eventData, memberId) ==
    IF eventData.createdBy = memberId THEN [error |-> CannotRemoveCreator]
    ELSE [error |-> Ok,
          data |-> [members |-> updatedMembers(eventData, memberId)]]

\* Mutant: the creator guard is missing.
removeMemberFromEvent_noCreatorGuard(eventData, memberId) ==
    IF ~isMember(eventData, memberId) THEN [error |-> NotAMember]
    ELSE [error |-> Ok,
          data |-> [members |-> updatedMembers(eventData, memberId)]]

\* The stretch of removeMemberFromEvent up to the await of getUserData.
removeMemberFromEvent(eventData, memberId) ==
    IF eventData.createdBy = memberId THEN [error |-> CannotRemoveCreator]
    ELSE IF ~isMember(eventData, memberId) THEN [error |-> NotAMember]
    ELSE [error |-> Ok,
          data |-> [members |-> updatedMembers(eventData, memberId)]]

\* Mutant: every record of the member's email is dropped, whatever its status.
updatedInvitations_anyStatus(eventData, userData) ==
    LET kept(inv) == inv.email # userData.email
    IN  IF ~userData.thrown /\ userData.email # NoUserData
        THEN SelectSeq(eventData.invitations, kept)
        ELSE eventData.invitations

\* Mutant: without a profile email every accepted record is dropped.
updatedInvitations_statusOnly(eventData, userData) ==
    LET kept(inv) == ~(inv.email = userData.email /\ inv.status = "accepted")
        notAccepted(inv) == inv.status # "accepted"
    IN  IF ~userData.thrown /\ userData.email # NoUserData
        THEN SelectSeq(eventData.invitations, kept)
        ELSE SelectSeq(eventData.invitations, notAccepted)

\* Mutant: the accepted record is demoted to pending instead of dropped.
updatedInvitations_demote(eventData, userData) ==
    [i \in 1..Len(eventData.invitations) |->
        IF /\ ~userData.thrown
           /\ eventData.invitations[i].email = userData.email
           /\ eventData.invitations[i].status = "accepted"
        THEN [eventData.invitations[i] EXCEPT !.status = "pending"]
        ELSE eventData.invitations[i]]

\* The stretch after getUserData settled: the accepted invitations of the
\* member's email are dropped when the profile gave an email.
updatedInvitations(eventData, userData) ==
    LET kept(inv) == ~(inv.email = userData.email /\ inv.status = "accepted")
    IN  IF ~userData.thrown /\ userData.email # NoUserData
        THEN SelectSeq(eventData.invitations, kept)
        ELSE eventData.invitations

\* ----------------------------------------------------------------- actions

Init ==
    /\ events = <<>>
    /\ issued = {}
    /\ calls = <<>>
    /\ ops = 0
    /\ last = [fn |-> "none"]
    /\ wishlists = <<>>
    /\ assignments = <<>>
    /\ subs = <<>>

\* The task a new call runs as.
FreeTask(t) ==
    /\ ops < MaxOps
    /\ t \in Tasks \ DOMAIN calls
    /\ \A x \in Tasks \ DOMAIN calls : t <= x

\* The stored document of eventId, <<>> when there is none.
Stored(eventId) == IF eventId \in DOMAIN events THEN events[eventId] ELSE <<>>

Settle(fn, eventId, args, result, read) ==
    last' = [fn |-> fn, eventId |-> eventId, args |-> args, result |-> result,
             read |-> read, before |-> Stored(eventId)]

InFlight(t, call) ==
    calls' = [x \in DOMAIN calls \cup {t} |-> IF x = t THEN call ELSE calls[x]]

Finished(t) ==
    calls' = [x \in DOMAIN calls \ {t} |-> calls[x]]

\* createEvent: addDoc stores the new document under a fresh id.
CreateEvent(eventId, name, createdBy) ==
    /\ ops < MaxOps
    /\ eventId \notin issued
    /\ issued' = issued \cup {eventId}
    /\ events' = [x \in DOMAIN events \cup {eventId} |->
                     IF x = eventId THEN createEventData(name, createdBy)
                     ELSE events[x]]
    /\ ops' = ops + 1
    /\ Settle("createEvent", eventId, [name |-> name, createdBy |-> createdBy],
              Ok, <<>>)
    /\ UNCHANGED <<calls, wishlists, assignments, subs>>

\* updateEvent: updateDoc with the name when one is given ("" is falsy).
UpdateEvent(eventId, name) ==
    /\ ops < MaxOps
    /\ ops' = ops + 1
    /\ IF eventId \in DOMAIN events
       THEN /\ events' = [events EXCEPT ![eventId] =
                   mergeFields(@, IF name # "" THEN [name |-> name] ELSE <<>>)]
            /\ Settle("updateEvent", eventId, [name |-> name], Ok, <<>>)
       ELSE /\ UNCHANGED events
            /\ Settle("updateEvent", eventId, [name |-> name],
                      NoDocumentToUpdate, <<>>)
    /\ UNCHANGED <<issued, calls, wishlists, assignments, subs>>

DeleteEvent_cascading(eventId) ==
    /\ ops < MaxOps
    /\ ops' = ops + 1
    /\ events' = [x \in DOMAIN events \ {eventId} |-> events[x]]
    /\ wishlists' = [x \in {w \in DOMAIN wishlists : wishlists[w].eventId # eventId}
                        |-> wishlists[x]]
    /\ assignments' = [x \in {y \in DOMAIN assignments :
                                  assignments[y].eventId # eventId}
                          |-> assignments[x]]
    /\ last' = [fn |-> "deleteEvent", eventId |-> eventId, args |-> <<>>,
                result |-> "ok", read |-> <<>>,
                before |-> IF eventId \in DOMAIN events THEN events[eventId] ELSE <<>>]
    /\ UNCHANGED <<issued, calls, subs>>

\* deleteEvent: deleteDoc, which succeeds whether or not the document exists.
DeleteEvent(eventId) ==
    /\ ops < MaxOps
    /\ ops' = ops + 1
    /\ events' = [x \in DOMAIN events \ {eventId} |-> events[x]]
    /\ Settle("deleteEvent", eventId, <<>>, Ok, <<>>)
    /\ UNCHANGED <<issued, calls, wishlists, assignments, subs>>

\* A call whose getDoc resolves: it throws, or it goes on to its next await
\* with the snapshot it read.
Begin(t, fn, eventId, args, outcome, pc) ==
    /\ ops' = ops + 1
    /\ UNCHANGED <<events, issued, wishlists, assignments, subs>>
    /\ IF outcome.error # Ok
       THEN /\ Settle(fn, eventId, args, outcome.error, Stored(eventId))
            /\ UNCHANGED calls
       ELSE /\ InFlight(t, [fn |-> fn, eventId |-> eventId, args |-> args,
                            eventData |-> events[eventId], pc |-> pc,
                            data |-> outcome.data])
            /\ UNCHANGED last

Read(eventId, outcome) ==
    IF eventId \in DOMAIN events THEN outcome ELSE [error |-> EventNotFound]

InviteRead(t, eventId, email, invitedBy) ==
    /\ FreeTask(t)
    /\ Begin(t, "inviteUserToEvent", eventId,
             [email |-> email, invitedBy |-> invitedBy],
             Read(eventId, inviteUserToEvent(events[eventId], email, invitedBy)),
             "updateDoc")

AcceptRead(t, eventId, userId, email) ==
    /\ FreeTask(t)
    /\ Begin(t, "acceptInvitation", eventId,
             [userId |-> userId, email |-> email],
             Read(eventId, acceptInvitation(events[eventId], userId, email)),
             "updateDoc")

RejectRead(t, eventId, email) ==
    /\ FreeTask(t)
    /\ Begin(t, "rejectInvitation", eventId, [email |-> email],
             Read(eventId, rejectInvitation(events[eventId], email)),
             "updateDoc")

RemoveRead(t, eventId, memberId) ==
    /\ FreeTask(t)
    /\ Begin(t, "removeMemberFromEvent", eventId, [memberId |-> memberId],
             Read(eventId, removeMemberFromEvent(events[eventId], memberId)),
             "getUserData")

\* getUserData settles inside removeMemberFromEvent.
RemoveLookup(t, outcome) ==
    /\ t \in DOMAIN calls
    /\ calls[t].pc = "getUserData"
    /\ LET userData == getUserData(calls[t].args.memberId, outcome)
       IN  calls' = [calls EXCEPT ![t] =
               [fn |-> @.fn, eventId |-> @.eventId, args |-> @.args,
                eventData |-> @.eventData, pc |-> "updateDoc",
                userData |-> userData, getDoc |-> outcome,
                data |-> [members |-> @.data.members,
                          invitations |->
                              updatedInvitations(@.eventData, userData)]]]
    /\ UNCHANGED <<events, issued, ops, last, wishlists, assignments, subs>>

\* updateDoc of a call in flight reaches the store.
UpdateDoc(t) ==
    /\ t \in DOMAIN calls
    /\ calls[t].pc = "updateDoc"
    /\ Finished(t)
    /\ IF calls[t].eventId \in DOMAIN events
       THEN /\ events' = [events EXCEPT ![calls[t].eventId] =
                              mergeFields(@, calls[t].data)]
            /\ Settle(calls[t].fn, calls[t].eventId, calls[t].args, Ok,
                      calls[t].eventData)
       ELSE /\ UNCHANGED events
            /\ Settle(calls[t].fn, calls[t].eventId, calls[t].args,
                      NoDocumentToUpdate, calls[t].eventData)
    /\ UNCHANGED <<issued, ops, wishlists, assignments, subs>>

Next ==
    \/ \E eventId \in EventIds, name \in Names, createdBy \in Users :
           CreateEvent(eventId, name, createdBy)
    \/ \E eventId \in EventIds, name \in NewNames : UpdateEvent(eventId, name)
    \/ \E eventId \in EventIds : DeleteEvent(eventId)
    \/ \E t \in Tasks, eventId \in EventIds, email \in Emails, invitedBy \in Users :
           InviteRead(t, eventId, email, invitedBy)
    \/ \E t \in Tasks, eventId \in EventIds, userId \in Users, email \in Emails :
           AcceptRead(t, eventId, userId, email)
    \/ \E t \in Tasks, eventId \in EventIds, email \in Emails :
           RejectRead(t, eventId, email)
    \/ \E t \in Tasks, eventId \in EventIds, memberId \in Users :
           RemoveRead(t, eventId, memberId)
    \/ \E t \in Tasks, outcome \in ReadOutcomes : RemoveLookup(t, outcome)
    \/ \E t \in Tasks : UpdateDoc(t)

Spec == Init /\ [][Next]_vars

\* ------------------------------------------------------------ wishlists.ts

\* The document ids addDoc can hand out for wishlists.
WishlistIds == {"W1"}
WishlistNames == {"Birthday"}
\* The values the client clock (Date.now, Timestamp.now) returns to a call:
\* the clocks of two devices are not synchronized and a clock can be set
\* back, so a later call can be given any of them.
Times == {1, 2}
ItemNames == {"book"}
NewItemNames == {"toy"}
Descriptions == {"blue"}
\* The users that create wishlists.
Owners == {"U1"}
\* The values Timestamp.now() returns (no function reads purchasedAt back).
Timestamps == {1}

\* The value undefined of a key of an object.
Undefined == "undefined"
WishlistNotFound == "Wishlist not found"
ItemNotFound == "Item not found"
\* The store rejects data that holds undefined anywhere.
UnsupportedUndefined == "Unsupported field value: undefined"

\* obj[key] of the source: undefined when obj has no such key.
get(obj, key) == IF key \in DOMAIN obj THEN obj[key] ELSE Undefined

\* { ...a, ...b }: the keys of both, b's value where both have the key.
spread(a, b) ==
    [key \in DOMAIN a \cup DOMAIN b |-> IF key \in DOMAIN b THEN b[key] ELSE a[key]]

\* obj without the keys in keys.
omit(obj, keys) == [key \in DOMAIN obj \ keys |-> obj[key]]

removeUndefined_keepAll(obj) == obj

\* removeUndefined: the keys of obj whose value is not undefined.
removeUndefined(obj) ==
    [key \in {k \in DOMAIN obj : obj[k] # Undefined} |-> obj[key]]

\* cleanWishlistItems: every item cleaned, under its own id and name.
cleanWishlistItems(items) ==
    [i \in 1..Len(items) |->
        spread([id |-> get(items[i], "id"), name |-> get(items[i], "name")],
               removeUndefined(items[i]))]

\* Date.now().toString()
newId(now) == ToString(now)

\* Timestamp.now()
timestampNow(now) == "@" \o ToString(now)

\* The item addItemToWishlist builds from its argument.
newItem(item, now) ==
    spread([id |-> newId(now), name |-> get(item, "name")], removeUndefined(item))

\* addItemToWishlist between getDoc and updateDoc.
addItemToWishlist(wishlistData, item, now) ==
    [error |-> Ok,
     data |-> [items |-> Append(cleanWishlistItems(wishlistData.items),
                                newItem(item, now))]]

\* updateWishlistItem between getDoc and updateDoc.
updateWishlistItem(wishlistData, itemId, updates) ==
    LET cleanedUpdates == removeUndefined(updates)
        updatedItems ==
            [i \in 1..Len(wishlistData.items) |->
                IF wishlistData.items[i].id = itemId
                THEN spread(wishlistData.items[i], cleanedUpdates)
                ELSE wishlistData.items[i]]
    IN  [error |-> Ok, data |-> [items |-> cleanWishlistItems(updatedItems)]]

deleteWishlistItem_firstOnly(wishlistData, itemId) ==
    LET first == findIndex({i \in 1..Len(wishlistData.items) :
                               wishlistData.items[i].id = itemId}) + 1
        kept == {i \in 1..Len(wishlistData.items) : i # first}
    IN  [error |-> Ok,
         data |-> [items |-> [k \in 1..Cardinality(kept) |->
                     wishlistData.items[CHOOSE i \in kept :
                         Cardinality({j \in kept : j <= i}) = k]]]]

\* deleteWishlistItem between getDoc and updateDoc.
deleteWishlistItem(wishlistData, itemId) ==
    LET kept(item) == item.id # itemId
    IN  [error |-> Ok, data |-> [items |-> SelectSeq(wishlistData.items, kept)]]

\* Mutant: an item that has a purchaser is not marked again.
markItemAsPurchased_guarded(wishlistData, itemId, purchasedBy, now) ==
    IF \E i \in 1..Len(wishlistData.items) :
           /\ wishlistData.items[i].id = itemId
           /\ "purchasedBy" \in DOMAIN wishlistData.items[i]
    THEN [error |-> "Item already purchased"]
    ELSE updateWishlistItem(wishlistData, itemId,
                            [purchasedBy |-> purchasedBy,
                             purchasedAt |-> timestampNow(now)])

markItemAsPurchased_timeOnly(wishlistData, itemId, purchasedBy, now) ==
    updateWishlistItem(wishlistData, itemId, [purchasedAt |-> timestampNow(now)])

\* markItemAsPurchased: updateWishlistItem with the purchaser and the time.
markItemAsPurchased(wishlistData, itemId, purchasedBy, now) ==
    updateWishlistItem(wishlistData, itemId,
                       [purchasedBy |-> purchasedBy,
                        purchasedAt |-> timestampNow(now)])

\* unmarkItemAsPurchased: the item located by its id, both purchase fields
\* cleared, the whole array written.
unmarkItemAsPurchased(wishlistData, itemId) ==
    IF \A i \in 1..Len(wishlistData.items) : wishlistData.items[i].id # itemId
    THEN [error |-> ItemNotFound]
    ELSE [error |-> Ok,
          data |-> [items |->
              [i \in 1..Len(wishlistData.items) |->
                  IF wishlistData.items[i].id = itemId
                  THEN omit(wishlistData.items[i], {"purchasedBy", "purchasedAt"})
                  ELSE wishlistData.items[i]]]]

\* The arrays b is a rearrangement of: the same items, each as many times.
isPermutation(a, b) ==
    \A i \in 1..Len(a) \cup 1..Len(b) :
        LET x == IF i <= Len(a) THEN a[i] ELSE b[i]
        IN  Cardinality({j \in 1..Len(a) : a[j] = x})
                = Cardinality({j \in 1..Len(b) : b[j] = x})

reorderWishlistItems_permutationOnly(wishlistData, items) ==
    IF isPermutation(wishlistData.items, items)
    THEN [error |-> Ok, data |-> [items |-> items]]
    ELSE [error |-> "Not a permutation of the items"]

\* reorderWishlistItems: the array of the caller replaces the items, in one
\* whole-array write, as it is given.
reorderWishlistItems(wishlistData, items) ==
    [error |-> Ok, data |-> [items |-> items]]

createWishlistData(name, eventId, createdBy) ==
    [name |-> name, eventId |-> eventId, createdBy |-> createdBy, items |-> <<>>]

\* The items handleAddItem passes: an optional field is a key whose value
\* is undefined when the form field is empty (link and price are passed as
\* description is).
AddInputs ==
    {[name |-> name, description |-> description] :
        name \in ItemNames, description \in Descriptions \cup {Undefined}}

\* The updates updateWishlistItem is given, on fields other than the
\* purchase fields: a new name, and a key whose value is undefined.
Updates ==
    {[name |-> name, description |-> Undefined] : name \in NewItemNames}

ItemIds == {newId(now) : now \in Times}

\* The arrays handleDragEnd passes on: lists of items as the screen shows
\* them, here none or two, the later id first or the same item twice.
DraggedItem(now) == [id |-> newId(now), name |-> "book"]
DraggedArrays ==
    {<<>>} \cup {<<DraggedItem(p[1]), DraggedItem(p[2])>> :
                    p \in {q \in Times \X Times : q[2] <= q[1]}}

\* Some value of data is undefined, at any depth of an items array.
holdsUndefined(data) ==
    \E i \in 1..Len(data.items) :
        \E key \in DOMAIN data.items[i] : data.items[i][key] = Undefined

\* -------------------------------------------------------- wishlist actions

\* The task a new wishlist call runs as.
FreeWishlistTask(t) ==
    /\ ops < MaxWishlistOps
    /\ t \in Tasks \ DOMAIN calls
    /\ \A x \in Tasks \ DOMAIN calls : t <= x

StoredWishlist(wishlistId) ==
    IF wishlistId \in DOMAIN wishlists THEN wishlists[wishlistId] ELSE <<>>

SettleWishlist(fn, wishlistId, args, result, read) ==
    last' = [fn |-> fn, wishlistId |-> wishlistId, args |-> args,
             result |-> result, read |-> read,
             before |-> StoredWishlist(wishlistId)]

\* createWishlist: addDoc stores the new document under a fresh id.
CreateWishlist(wishlistId, name, eventId, createdBy) ==
    /\ ops < MaxWishlistOps
    /\ wishlistId \notin issued
    /\ issued' = issued \cup {wishlistId}
    /\ wishlists' = [x \in DOMAIN wishlists \cup {wishlistId} |->
                        IF x = wishlistId
                        THEN createWishlistData(name, eventId, createdBy)
                        ELSE wishlists[x]]
    /\ ops' = ops + 1
    /\ SettleWishlist("createWishlist", wishlistId,
                      [name |-> name, eventId |-> eventId, createdBy |-> createdBy],
                      Ok, <<>>)
    /\ UNCHANGED <<events, assignments, subs, calls>>

\* deleteWishlist: deleteDoc, which succeeds whether or not the document exists.
DeleteWishlist(wishlistId) ==
    /\ ops < MaxWishlistOps
    /\ ops' = ops + 1
    /\ wishlists' = [x \in DOMAIN wishlists \ {wishlistId} |-> wishlists[x]]
    /\ SettleWishlist("deleteWishlist", wishlistId, <<>>, Ok, <<>>)
    /\ UNCHANGED <<events, assignments, subs, issued, calls>>

\* A wishlist call whose getDoc resolves: it throws, or it goes on to its
\* updateDoc with the snapshot it read.
BeginWishlist(t, fn, wishlistId, args, outcome) ==
    /\ ops' = ops + 1
    /\ UNCHANGED <<events, issued, wishlists, assignments, subs>>
    /\ IF outcome.error # Ok
       THEN /\ SettleWishlist(fn, wishlistId, args, outcome.error,
                              StoredWishlist(wishlistId))
            /\ UNCHANGED calls
       ELSE /\ InFlight(t, [fn |-> fn, wishlistId |-> wishlistId, args |-> args,
                            wishlistData |-> wishlists[wishlistId],
                            pc |-> "updateDoc", data |-> outcome.data])
            /\ UNCHANGED last

ReadWishlist(wishlistId, outcome) ==
    IF wishlistId \in DOMAIN wishlists THEN outcome
    ELSE [error |-> WishlistNotFound]

AddItemRead(t, wishlistId, item, now) ==
    /\ FreeWishlistTask(t)
    /\ BeginWishlist(t, "addItemToWishlist", wishlistId,
                     [item |-> item, now |-> now],
                     ReadWishlist(wishlistId,
                         addItemToWishlist(wishlists[wishlistId], item, now)))

UpdateItemRead(t, wishlistId, itemId, updates) ==
    /\ FreeWishlistTask(t)
    /\ BeginWishlist(t, "updateWishlistItem", wishlistId,
                     [itemId |-> itemId, updates |-> updates],
                     ReadWishlist(wishlistId,
                         updateWishlistItem(wishlists[wishlistId], itemId, updates)))

DeleteItemRead(t, wishlistId, itemId) ==
    /\ FreeWishlistTask(t)
    /\ BeginWishlist(t, "deleteWishlistItem", wishlistId, [itemId |-> itemId],
                     ReadWishlist(wishlistId,
                         deleteWishlistItem(wishlists[wishlistId], itemId)))

MarkRead(t, wishlistId, itemId, purchasedBy, now) ==
    /\ FreeWishlistTask(t)
    /\ BeginWishlist(t, "markItemAsPurchased", wishlistId,
                     [itemId |-> itemId, purchasedBy |-> purchasedBy, now |-> now],
                     ReadWishlist(wishlistId,
                         markItemAsPurchased(wishlists[wishlistId], itemId,
                                             purchasedBy, now)))

UnmarkRead(t, wishlistId, itemId) ==
    /\ FreeWishlistTask(t)
    /\ BeginWishlist(t, "unmarkItemAsPurchased", wishlistId, [itemId |-> itemId],
                     ReadWishlist(wishlistId,
                         unmarkItemAsPurchased(wishlists[wishlistId], itemId)))

ReorderRead(t, wishlistId, items) ==
    /\ FreeWishlistTask(t)
    /\ BeginWishlist(t, "reorderWishlistItems", wishlistId, [items |-> items],
                     ReadWishlist(wishlistId,
                         reorderWishlistItems(wishlists[wishlistId], items)))

\* updateDoc of a wishlist call in flight reaches the store.
WishlistUpdateDoc(t) ==
    /\ t \in DOMAIN calls
    /\ calls[t].pc = "updateDoc"
    /\ Finished(t)
    /\ IF holdsUndefined(calls[t].data)
       THEN /\ UNCHANGED wishlists
            /\ SettleWishlist(calls[t].fn, calls[t].wishlistId, calls[t].args,
                              UnsupportedUndefined, calls[t].wishlistData)
       ELSE IF calls[t].wishlistId \in DOMAIN wishlists
       THEN /\ wishlists' = [wishlists EXCEPT ![calls[t].wishlistId] =
                                 mergeFields(@, calls[t].data)]
            /\ SettleWishlist(calls[t].fn, calls[t].wishlistId, calls[t].args,
                              Ok, calls[t].wishlistData)
       ELSE /\ UNCHANGED wishlists
            /\ SettleWishlist(calls[t].fn, calls[t].wishlistId, calls[t].args,
                              NoDocumentToUpdate, calls[t].wishlistData)
    /\ UNCHANGED <<events, assignments, subs, issued, ops>>

NextWishlist ==
    \/ \E wishlistId \in WishlistIds, name \in WishlistNames,
          eventId \in EventIds, createdBy \in Owners :
           CreateWishlist(wishlistId, name, eventId, createdBy)
    \/ \E wishlistId \in WishlistIds : DeleteWishlist(wishlistId)
    \/ \E t \in Tasks, wishlistId \in WishlistIds, item \in AddInputs, now \in Times :
           AddItemRead(t, wishlistId, item, now)
    \/ \E t \in Tasks, wishlistId \in WishlistIds, itemId \in ItemIds,
          updates \in Updates :
           UpdateItemRead(t, wishlistId, itemId, updates)
    \/ \E t \in Tasks, wishlistId \in WishlistIds, itemId \in ItemIds :
           DeleteItemRead(t, wishlistId, itemId)
    \/ \E t \in Tasks, wishlistId \in WishlistIds, itemId \in ItemIds,
          purchasedBy \in Users, now \in Timestamps :
           MarkRead(t, wishlistId, itemId, purchasedBy, now)
    \/ \E t \in Tasks, wishlistId \in WishlistIds, itemId \in ItemIds :
           UnmarkRead(t, wishlistId, itemId)
    \/ \E t \in Tasks, wishlistId \in WishlistIds, items \in DraggedArrays :
           ReorderRead(t, wishlistId, items)
    \/ \E t \in Tasks : WishlistUpdateDoc(t)

SpecWishlist == Init /\ [][NextWishlist]_vars

\* ------------------------------------------------- assignments (firebase.ts)

\* The document ids addDoc can hand out for assignments, in the order in
\* which a query returns their documents (by document id).
AssignmentIds == {"A1", "A2"}
idOrder == <<"A1", "A2">>
\* The users that create assignments (the organizer).
Organizers == {"U1"}
AssignmentExists == "Assignment already exists"
\* A request that the store or the network fails.
Unavailable == "unavailable"
RequestOutcomes == {Ok, Unavailable}
NoAssignment == "null"

\* The documents of the collection a where-query on the three fields matches.
existingDocs(collectionData, eventId, wishlistId, assignedTo) ==
    {id \in DOMAIN collectionData :
        /\ collectionData[id].eventId = eventId
        /\ collectionData[id].wishlistId = wishlistId
        /\ collectionData[id].assignedTo = assignedTo}

assignmentData(eventId, wishlistId, assignedTo, assignedBy) ==
    [eventId |-> eventId, wishlistId |-> wishlistId, assignedTo |-> assignedTo,
     assignedBy |-> assignedBy, status |-> "pending"]

createAssignment_noCheck(collectionData, eventId, wishlistId, assignedTo, assignedBy) ==
    [error |-> Ok, data |-> assignmentData(eventId, wishlistId, assignedTo, assignedBy)]

\* createAssignment between getDocs and addDoc.
createAssignment(collectionData, eventId, wishlistId, assignedTo, assignedBy) ==
    IF existingDocs(collectionData, eventId, wishlistId, assignedTo) # {}
    THEN [error |-> AssignmentExists]
    ELSE [error |-> Ok,
          data |-> assignmentData(eventId, wishlistId, assignedTo, assignedBy)]

addDoc_unlessSame(collectionData, id, data) ==
    IF \E x \in DOMAIN collectionData : collectionData[x] = data
    THEN collectionData
    ELSE [x \in DOMAIN collectionData \cup {id} |->
             IF x = id THEN data ELSE collectionData[x]]

\* addDoc(collection, data): the collection with the new document under id.
addDoc(collectionData, id, data) ==
    [x \in DOMAIN collectionData \cup {id} |->
        IF x = id THEN data ELSE collectionData[x]]

\* getAssignmentForWishlist: the first document of the where-query on
\* wishlistId, null when there is none; the query can fail.
getAssignmentForWishlist(collectionData, wishlistId, outcome) ==
    LET docs == {i \in 1..Len(idOrder) :
                    /\ idOrder[i] \in DOMAIN collectionData
                    /\ collectionData[idOrder[i]].wishlistId = wishlistId}
    IN  IF outcome # Ok THEN [thrown |-> TRUE]
        ELSE IF docs = {} THEN [thrown |-> FALSE, id |-> NoAssignment]
        ELSE [thrown |-> FALSE,
              id |-> idOrder[findIndex(docs) + 1],
              status |-> collectionData[idOrder[findIndex(docs) + 1]].status]

alertMessage_assignmentToo(itemError, assignmentError) ==
    IF itemError # Ok THEN itemError ELSE assignmentError

\* What handleMarkPurchased and handleUnmarkPurchased tell the user: the
\* error of the item mutation; the inner catch keeps the error of the
\* assignment lookup or update to the console.
alertMessage(itemError, assignmentError) == itemError

\* The status the handler of fn moves an assignment from and to.
mirrorFrom(fn) == IF fn = "handleMarkPurchased" THEN "pending" ELSE "purchased"
\* Mutant: the status is taken from the purchase state of all the items.
mirrorTo_aggregate(fn) ==
    IF \E w \in DOMAIN wishlists : \E i \in 1..Len(wishlists[w].items) :
           /\ "purchasedBy" \in DOMAIN wishlists[w].items[i]
           /\ wishlists[w].items[i]["purchasedBy"] # Undefined
    THEN "purchased" ELSE "pending"

mirrorTo_pending(fn) == "pending"
mirrorTo(fn) == IF fn = "handleMarkPurchased" THEN "purchased" ELSE "pending"

\* ------------------------------------------------------ assignment actions

\* createAssignment: getDocs resolves; the call throws or goes on to addDoc.
CreateAssignmentQuery(t, eventId, wishlistId, assignedTo, assignedBy) ==
    /\ FreeTask(t)
    /\ ops' = ops + 1
    /\ LET args == [eventId |-> eventId, wishlistId |-> wishlistId,
                    assignedTo |-> assignedTo, assignedBy |-> assignedBy]
           outcome == createAssignment(assignments, eventId, wishlistId,
                                       assignedTo, assignedBy)
       IN  IF outcome.error # Ok
           THEN /\ last' = [fn |-> "createAssignment", args |-> args,
                            result |-> outcome.error, read |-> assignments,
                            before |-> assignments]
                /\ UNCHANGED calls
           ELSE /\ InFlight(t, [fn |-> "createAssignment", args |-> args,
                                read |-> assignments, pc |-> "addDoc",
                                data |-> outcome.data])
                /\ UNCHANGED last
    /\ UNCHANGED <<events, issued, wishlists, assignments, subs>>

\* addDoc of a createAssignment call in flight reaches the store.
AddDoc(t, assignmentId) ==
    /\ t \in DOMAIN calls
    /\ calls[t].pc = "addDoc"
    /\ assignmentId \notin issued
    /\ issued' = issued \cup {assignmentId}
    /\ Finished(t)
    /\ assignments' = addDoc(assignments, assignmentId, calls[t].data)
    /\ last' = [fn |-> "createAssignment", args |-> calls[t].args, result |-> Ok,
                id |-> assignmentId, read |-> calls[t].read,
                before |-> assignments]
    /\ UNCHANGED <<events, ops, wishlists, subs>>

\* deleteAssignment: deleteDoc, which succeeds whether or not the document exists.
DeleteAssignment(assignmentId) ==
    /\ ops < MaxOps
    /\ ops' = ops + 1
    /\ assignments' = [x \in DOMAIN assignments \ {assignmentId} |-> assignments[x]]
    /\ last' = [fn |-> "deleteAssignment", args |-> [assignmentId |-> assignmentId],
                result |-> Ok, read |-> <<>>, before |-> assignments]
    /\ UNCHANGED <<events, issued, calls, wishlists, subs>>

\* The handler settles: what the user is told, how the item mutation ended
\* and how the assignment part ended.
SettleHandler(t, itemError, assignmentError, mirror) ==
    /\ Finished(t)
    /\ last' = [fn |-> calls[t].fn, wishlistId |-> calls[t].wishlistId,
                args |-> calls[t].args,
                result |-> alertMessage(itemError, assignmentError),
                item |-> itemError, mirror |-> mirror,
                read |-> calls[t].wishlistData,
                before |-> StoredWishlist(calls[t].wishlistId)]

\* A purchase handler starts: getDoc of its item mutation resolves. An error
\* thrown here reaches the outer catch.
BeginHandler(t, fn, wishlistId, args, outcome) ==
    /\ ops' = ops + 1
    /\ UNCHANGED <<events, issued, wishlists, assignments, subs>>
    /\ IF outcome.error # Ok
       THEN /\ last' = [fn |-> fn, wishlistId |-> wishlistId, args |-> args,
                        result |-> alertMessage(outcome.error, Ok),
                        item |-> outcome.error, mirror |-> "not tried",
                        read |-> StoredWishlist(wishlistId),
                        before |-> StoredWishlist(wishlistId)]
            /\ UNCHANGED calls
       ELSE /\ InFlight(t, [fn |-> fn, wishlistId |-> wishlistId, args |-> args,
                            wishlistData |-> wishlists[wishlistId],
                            pc |-> "item updateDoc", data |-> outcome.data])
            /\ UNCHANGED last

\* handleMarkPurchased up to the updateDoc of markItemAsPurchased.
HandleMarkPurchased(t, wishlistId, itemId, user, now) ==
    /\ FreeTask(t)
    /\ BeginHandler(t, "handleMarkPurchased", wishlistId,
                    [itemId |-> itemId, purchasedBy |-> user, now |-> now],
                    ReadWishlist(wishlistId,
                        markItemAsPurchased(wishlists[wishlistId], itemId,
                                            user, now)))

\* handleUnmarkPurchased up to the updateDoc of unmarkItemAsPurchased.
HandleUnmarkPurchased(t, wishlistId, itemId) ==
    /\ FreeTask(t)
    /\ BeginHandler(t, "handleUnmarkPurchased", wishlistId, [itemId |-> itemId],
                    ReadWishlist(wishlistId,
                        unmarkItemAsPurchased(wishlists[wishlistId], itemId)))

\* The updateDoc of the item mutation settles: on an error the handler ends
\* in its outer catch, otherwise it goes on to look the assignment up.
HandlerItemWrite(t) ==
    /\ t \in DOMAIN calls
    /\ calls[t].pc = "item updateDoc"
    /\ IF calls[t].wishlistId \in DOMAIN wishlists
       THEN /\ wishlists' = [wishlists EXCEPT ![calls[t].wishlistId] =
                                 mergeFields(@, calls[t].data)]
            /\ calls' = [calls EXCEPT ![t].pc = "getAssignmentForWishlist"]
            /\ UNCHANGED last
       ELSE /\ UNCHANGED wishlists
            /\ SettleHandler(t, NoDocumentToUpdate, Ok, "not tried")
    /\ UNCHANGED <<events, issued, ops, assignments, subs>>

\* getAssignmentForWishlist settles inside the handler.
HandlerLookup(t, outcome) ==
    /\ t \in DOMAIN calls
    /\ calls[t].pc = "getAssignmentForWishlist"
    /\ LET assignment == getAssignmentForWishlist(assignments, calls[t].wishlistId,
                                                  outcome)
       IN  IF assignment.thrown
           THEN SettleHandler(t, Ok, outcome, "lookup failed")
           ELSE IF assignment.id # NoAssignment
                   /\ assignment.status = mirrorFrom(calls[t].fn)
           THEN /\ calls' = [calls EXCEPT ![t] =
                       [fn |-> @.fn, wishlistId |-> @.wishlistId, args |-> @.args,
                        wishlistData |-> @.wishlistData, data |-> @.data,
                        pc |-> "updateAssignmentStatus",
                        assignmentId |-> assignment.id]]
                /\ UNCHANGED last
           ELSE SettleHandler(t, Ok, Ok, "nothing to update")
    /\ UNCHANGED <<events, issued, ops, wishlists, assignments, subs>>

\* updateAssignmentStatus settles inside the handler.
HandlerStatusUpdate(t, outcome) ==
    /\ t \in DOMAIN calls
    /\ calls[t].pc = "updateAssignmentStatus"
    /\ IF outcome # Ok
       THEN /\ UNCHANGED assignments
            /\ SettleHandler(t, Ok, outcome, "update failed")
       ELSE IF calls[t].assignmentId \notin DOMAIN assignments
       THEN /\ UNCHANGED assignments
            /\ SettleHandler(t, Ok, NoDocumentToUpdate, "update failed")
       ELSE /\ assignments' = [assignments EXCEPT ![calls[t].assignmentId] =
                                   mergeFields(@, [status |-> mirrorTo(calls[t].fn)])]
            /\ SettleHandler(t, Ok, Ok, "updated")
    /\ UNCHANGED <<events, issued, ops, wishlists, subs>>

\* The item the purchase handlers are tried on, its id and the user that
\* buys it.
GiftInputs == {[name |-> name, description |-> Undefined] : name \in ItemNames}
GiftIds == {newId(now) : now \in Timestamps}
Buyers == {"U2"}

NextAssignments ==
    \/ \E wishlistId \in WishlistIds, name \in WishlistNames,
          eventId \in EventIds, createdBy \in Owners :
           CreateWishlist(wishlistId, name, eventId, createdBy)
    \/ \E t \in Tasks, wishlistId \in WishlistIds, item \in GiftInputs,
          now \in Timestamps :
           AddItemRead(t, wishlistId, item, now)
    \/ \E t \in Tasks : WishlistUpdateDoc(t)
    \/ \E t \in Tasks, eventId \in EventIds, wishlistId \in WishlistIds,
          assignedTo \in Users, assignedBy \in Organizers :
           CreateAssignmentQuery(t, eventId, wishlistId, assignedTo, assignedBy)
    \/ \E t \in Tasks, assignmentId \in AssignmentIds : AddDoc(t, assignmentId)
    \/ \E assignmentId \in AssignmentIds : DeleteAssignment(assignmentId)
    \/ \E t \in Tasks, wishlistId \in WishlistIds, itemId \in GiftIds,
          user \in Buyers, now \in Timestamps :
           HandleMarkPurchased(t, wishlistId, itemId, user, now)
    \/ \E t \in Tasks, wishlistId \in WishlistIds, itemId \in GiftIds :
           HandleUnmarkPurchased(t, wishlistId, itemId)
    \/ \E t \in Tasks : HandlerItemWrite(t)
    \/ \E t \in Tasks, outcome \in RequestOutcomes : HandlerLookup(t, outcome)
    \/ \E t \in Tasks, outcome \in RequestOutcomes : HandlerStatusUpdate(t, outcome)

SpecAssignments == Init /\ [][NextAssignments]_vars

\* ------------------------------------------- live queries (events.ts, onSnapshot)

\* The two live queries of events.ts, one subscriber each.
Queries == {"eventsForUser", "eventsWithPendingInvitations"}
\* The ids of the events the live queries are tried on, in the order in
\* which a snapshot lists their documents (by document id).
ListedEventIds == {"E1", "E2"}
eventOrder == <<"E1", "E2">>
\* The user who is invited, accepts and is removed, and the one who invites.
Guests == {"U2"}
Hosts == {"U1"}
\* The terminal errors of a listener.
ListenErrors == {"permission-denied"}
NoError == "none"

\* querySnapshot.docs.map of a query: the documents of the collection that
\* pass, in snapshot order, each under what the callback is given for it.
docsOf(matching) ==
    [k \in 1..Cardinality(matching) |->
        eventOrder[CHOOSE i \in matching :
                       Cardinality({j \in matching : j <= i}) = k]]

eventsForUser_createdBy(collectionData, userId) ==
    LET matching == {i \in 1..Len(eventOrder) :
                        /\ eventOrder[i] \in DOMAIN collectionData
                        /\ collectionData[eventOrder[i]].createdBy = userId}
    IN  [k \in 1..Cardinality(matching) |-> [id |-> docsOf(matching)[k]]]

\* subscribeToEventsForUser, the snapshot callback: the documents whose
\* members array contains userId.
eventsForUser(collectionData, userId) ==
    LET matching == {i \in 1..Len(eventOrder) :
                        /\ eventOrder[i] \in DOMAIN collectionData
                        /\ includes(collectionData[eventOrder[i]].members, userId)}
    IN  [k \in 1..Cardinality(matching) |-> [id |-> docsOf(matching)[k]]]

eventsWithPendingInvitations_anyStatus(collectionData, email) ==
    LET index(id) == findIndex({i \in 1..Len(collectionData[id].invitations) :
                                   collectionData[id].invitations[i].email = email})
        matching == {i \in 1..Len(eventOrder) :
                        /\ eventOrder[i] \in DOMAIN collectionData
                        /\ index(eventOrder[i]) # -1}
    IN  [k \in 1..Cardinality(matching) |->
            [id |-> docsOf(matching)[k],
             invitationIndex |-> index(docsOf(matching)[k])]]

\* subscribeToEventsWithPendingInvitations, the snapshot callback: every
\* document of the collection is scanned with findIndex for a pending
\* invitation of email and pushed with that index when there is one.
eventsWithPendingInvitations(collectionData, email) ==
    LET index(id) == findIndex({i \in 1..Len(collectionData[id].invitations) :
                                   /\ collectionData[id].invitations[i].email = email
                                   /\ collectionData[id].invitations[i].status
                                          = "pending"})
        matching == {i \in 1..Len(eventOrder) :
                        /\ eventOrder[i] \in DOMAIN collectionData
                        /\ index(eventOrder[i]) # -1}
    IN  [k \in 1..Cardinality(matching) |->
            [id |-> docsOf(matching)[k],
             invitationIndex |-> index(docsOf(matching)[k])]]

\* What the snapshot callback of a live query hands to its subscriber.
snapshotOf(query, key, collectionData) ==
    IF query = "eventsForUser" THEN eventsForUser(collectionData, key)
    ELSE eventsWithPendingInvitations(collectionData, key)

onListenError_silent(onError, error) ==
    IF onError THEN [error |-> error] ELSE [error |-> NoError]

\* The error callback of onSnapshot in both subscribe functions: onError
\* gets the error when the caller gave one, otherwise callback gets [].
onListenError(onError, error) ==
    IF onError THEN [error |-> error] ELSE [error |-> NoError, data |-> <<>>]

\* The keys a query is subscribed with: a user id, or a user's email.
KeysOf(query) ==
    IF query = "eventsForUser" THEN Guests ELSE {userEmail[u] : u \in Guests}

Live(query) == query \in DOMAIN subs /\ subs[query].state = "live"

\* subscribeToEventsForUser / subscribeToEventsWithPendingInvitations:
\* onSnapshot registers the listener; no callback has run yet.
Subscribe(query, key, onError) ==
    /\ ~Live(query)
    /\ subs' = [q \in DOMAIN subs \cup {query} |->
                   IF q = query
                   THEN [key |-> key, onError |-> onError, state |-> "live",
                         delivered |-> FALSE, data |-> <<>>, error |-> NoError]
                   ELSE subs[q]]
    /\ UNCHANGED <<events, issued, calls, ops, last, wishlists, assignments>>

\* The store notifies the listener: the snapshot callback runs on the
\* collection as it is. A notification that hands over the list the
\* subscriber already has changes nothing.
Deliver(query) ==
    /\ Live(query)
    /\ \/ ~subs[query].delivered
       \/ subs[query].data # snapshotOf(query, subs[query].key, events)
    /\ subs' = [subs EXCEPT
                   ![query].delivered = TRUE,
                   ![query].data = snapshotOf(query, subs[query].key, events)]
    /\ UNCHANGED <<events, issued, calls, ops, last, wishlists, assignments>>

\* The listener ends with an error: the error callback runs.
ListenError(query, error) ==
    /\ Live(query)
    /\ LET signal == onListenError(subs[query].onError, error)
       IN  subs' = [subs EXCEPT ![query] =
               [key |-> @.key, onError |-> @.onError, state |-> "failed",
                delivered |-> @.delivered \/ "data" \in DOMAIN signal,
                data |-> IF "data" \in DOMAIN signal THEN signal.data ELSE @.data,
                error |-> signal.error]]
    /\ UNCHANGED <<events, issued, calls, ops, last, wishlists, assignments>>

\* The subscriber calls the Unsubscribe it was given.
Unsubscribe(query) ==
    /\ Live(query)
    /\ subs' = [subs EXCEPT ![query].state = "unsubscribed"]
    /\ UNCHANGED <<events, issued, calls, ops, last, wishlists, assignments>>

\* The calls that change the listened collection run one after another
\* here; their steps interleave with the steps of the listeners.
Callers == {1}

NextSubscriptions ==
    \/ \E eventId \in ListedEventIds, name \in Names, createdBy \in Hosts :
           CreateEvent(eventId, name, createdBy)
    \/ \E t \in Callers, eventId \in ListedEventIds, u \in Guests, invitedBy \in Hosts :
           InviteRead(t, eventId, userEmail[u], invitedBy)
    \/ \E t \in Callers, eventId \in ListedEventIds, userId \in Guests :
           AcceptRead(t, eventId, userId, userEmail[userId])
    \/ \E t \in Callers, eventId \in ListedEventIds, u \in Guests :
           RejectRead(t, eventId, userEmail[u])
    \/ \E t \in Callers, eventId \in ListedEventIds, memberId \in Guests :
           RemoveRead(t, eventId, memberId)
    \/ \E t \in Callers, outcome \in ReadOutcomes : RemoveLookup(t, outcome)
    \/ \E t \in Callers : UpdateDoc(t)
    \/ \E query \in Queries, onError \in BOOLEAN :
           \E key \in KeysOf(query) : Subscribe(query, key, onError)
    \/ \E query \in Queries : Deliver(query)
    \/ \E query \in Queries, error \in ListenErrors : ListenError(query, error)
    \/ \E query \in Queries : Unsubscribe(query)

SpecSubscriptions == Init /\ [][NextSubscriptions]_vars

\* The store goes on notifying a live listener: a change that is not yet
\* delivered is delivered at some point, unless the listener ends first.
FairDelivery == \A query \in Queries : WF_vars(Deliver(query))

\* The listeners as InvitationsContext and the event list set them up, each
\* with an error callback, beside the calls that invite, accept and remove.
NextDelivery ==
    \/ \E eventId \in EventIds, name \in Names, createdBy \in Hosts :
           CreateEvent(eventId, name, createdBy)
    \/ \E t \in Callers, eventId \in EventIds, u \in Guests, invitedBy \in Hosts :
           InviteRead(t, eventId, userEmail[u], invitedBy)
    \/ \E t \in Callers, eventId \in EventIds, userId \in Guests :
           AcceptRead(t, eventId, userId, userEmail[userId])
    \/ \E t \in Callers, eventId \in EventIds, memberId \in Guests :
           RemoveRead(t, eventId, memberId)
    \/ \E t \in Callers : RemoveLookup(t, "exists")
    \/ \E t \in Callers : UpdateDoc(t)
    \/ \E query \in Queries : \E key \in KeysOf(query) : Subscribe(query, key, TRUE)
    \/ \E query \in Queries : Deliver(query)
    \/ \E query \in Queries, error \in ListenErrors : ListenError(query, error)
    \/ \E query \in Queries : Unsubscribe(query)

SpecDelivery == Init /\ [][NextDelivery]_vars /\ FairDelivery

\* --------------------------------- the purchase handlers on a list of gifts

\* The ids of the gifts of the planned wishlist, added at different times.
PlannedGiftIds == {newId(now) : now \in Times}

\* A wishlist with one gift added at each time of Times, none purchased, as
\* createWishlist and addItemToWishlist leave it.
plannedWishlist ==
    LET gift == [name |-> "book", description |-> Undefined]
        created == createWishlistData("Birthday", "E1", "U1")
        first == mergeFields(created, addItemToWishlist(created, gift, 1).data)
    IN  mergeFields(first, addItemToWishlist(first, gift, 2).data)

\* The store once the planning is done: the wishlist with its two gifts and
\* the assignment of the wishlist to a buyer, pending.
InitPlanned ==
    /\ events = <<>>
    /\ issued = {"W1", "A1"}
    /\ calls = <<>>
    /\ ops = 0
    /\ last = [fn |-> "none"]
    /\ wishlists = [w \in {"W1"} |-> plannedWishlist]
    /\ assignments = addDoc(<<>>, "A1", assignmentData("E1", "W1", "U2", "U1"))
    /\ subs = <<>>

NextToggles ==
    \/ \E t \in Callers, wishlistId \in WishlistIds, itemId \in PlannedGiftIds,
          user \in Buyers, now \in Timestamps :
           HandleMarkPurchased(t, wishlistId, itemId, user, now)
    \/ \E t \in Callers, wishlistId \in WishlistIds, itemId \in PlannedGiftIds :
           HandleUnmarkPurchased(t, wishlistId, itemId)
    \/ \E t \in Callers : HandlerItemWrite(t)
    \/ \E t \in Callers, outcome \in RequestOutcomes : HandlerLookup(t, outcome)
    \/ \E t \in Callers, outcome \in RequestOutcomes : HandlerStatusUpdate(t, outcome)

SpecToggles == InitPlanned /\ [][NextToggles]_vars

\* ------------- the listeners of one document and of the documents of an event

\* subscribeToEvent, subscribeToWishlist, subscribeToWishlistsForEvent and
\* subscribeToAssignmentsForEvent, each keyed by the id it is given.
Listeners ==
    {"event", "wishlist", "wishlistsForEvent", "assignmentsForEvent"}

listenerKey ==
    [listener \in Listeners |-> IF listener = "wishlist" THEN "W1" ELSE "E1"]

\* onSnapshot(docRef, ...): callback with the document, or callback(null),
\* held here as the list of the one document or the empty list.
docSnapshot(collectionData, id) ==
    IF id \in DOMAIN collectionData THEN <<[id |-> id]>> ELSE <<>>

\* onSnapshot(query(..., where('eventId', '==', eventId)), ...): the
\* documents of the collection with that eventId, in snapshot order.
whereEventId(collectionData, order, eventId) ==
    LET matching == {i \in 1..Len(order) :
                        /\ order[i] \in DOMAIN collectionData
                        /\ collectionData[order[i]].eventId = eventId}
    IN  [k \in 1..Cardinality(matching) |->
            [id |-> order[CHOOSE i \in matching :
                              Cardinality({j \in matching : j <= i}) = k]]]

\* What the snapshot callback of a listener hands to its subscriber.
listenerSnapshot(listener) ==
    CASE listener = "event" -> docSnapshot(events, listenerKey[listener])
      [] listener = "wishlist" -> docSnapshot(wishlists, listenerKey[listener])
      [] listener = "wishlistsForEvent" ->
             whereEventId(wishlists, <<"W1">>, listenerKey[listener])
      [] OTHER -> whereEventId(assignments, idOrder, listenerKey[listener])

\* The four subscribe functions: onSnapshot is given the snapshot callback
\* alone.
SubscribeTo(listener) ==
    /\ ~Live(listener)
    /\ subs' = [q \in DOMAIN subs \cup {listener} |->
                   IF q = listener
                   THEN [key |-> listenerKey[listener], onError |-> FALSE,
                         state |-> "live", delivered |-> FALSE, data |-> <<>>,
                         error |-> NoError]
                   ELSE subs[q]]
    /\ UNCHANGED <<events, issued, calls, ops, last, wishlists, assignments>>

\* The store notifies the listener: the snapshot callback runs.
DeliverTo(listener) ==
    /\ Live(listener)
    /\ \/ ~subs[listener].delivered
       \/ subs[listener].data # listenerSnapshot(listener)
    /\ subs' = [subs EXCEPT ![listener].delivered = TRUE,
                            ![listener].data = listenerSnapshot(listener)]
    /\ UNCHANGED <<events, issued, calls, ops, last, wishlists, assignments>>

\* The listener ends with an error: onSnapshot was given no error callback,
\* so no code of the subscriber runs.
ListenerFails(listener) ==
    /\ Live(listener)
    /\ subs' = [subs EXCEPT ![listener].state = "failed"]
    /\ UNCHANGED <<events, issued, calls, ops, last, wishlists, assignments>>

NextListeners ==
    \/ \E eventId \in EventIds, name \in Names, createdBy \in Hosts :
           CreateEvent(eventId, name, createdBy)
    \/ \E wishlistId \in WishlistIds, name \in WishlistNames,
          eventId \in EventIds, createdBy \in Owners :
           CreateWishlist(wishlistId, name, eventId, createdBy)
    \/ \E t \in Callers, eventId \in EventIds, wishlistId \in WishlistIds,
          assignedTo \in Buyers, assignedBy \in Organizers :
           CreateAssignmentQuery(t, eventId, wishlistId, assignedTo, assignedBy)
    \/ \E t \in Callers, assignmentId \in AssignmentIds : AddDoc(t, assignmentId)
    \/ \E listener \in Listeners : SubscribeTo(listener)
    \/ \E listener \in Listeners : DeliverTo(listener)
    \/ \E listener \in Listeners : ListenerFails(listener)

SpecListeners == Init /\ [][NextListeners]_vars

\* ------------------- the effects of WishlistDetailScreen, InvitationsProvider

\* In this part subs is the list of the listeners the two components have
\* opened, in the order they were opened; the Unsubscribe a subscribe call
\* returns is the position of its listener, and 0 stands for null. calls
\* holds the state of each component while it is mounted.
Screen == 1
Provider == 2
NoUnsubscribe == 0

\* What the wishlist listener hands over: the wishlist of an event, or null
\* (the empty list) once the wishlist is deleted.
WishlistSnapshots == {<<>>} \cup {<<[eventId |-> e]>> : e \in ListedEventIds}

\* user?.email as the provider sees it: an email, or none.
NoEmail == "null"
SignedInEmails == {userEmail[u] : u \in Users} \cup {NoEmail}

\* onSnapshot: a new listener, live.
opened(listenersData, listener, key) ==
    Append(listenersData, [listener |-> listener, key |-> key, state |-> "live"])

\* Calling an Unsubscribe: its listener is live no more.
closed(listenersData, unsubscribe) ==
    IF unsubscribe = NoUnsubscribe THEN listenersData
    ELSE [listenersData EXCEPT ![unsubscribe].state = "unsubscribed"]

onWishlistData_keepPrevious(listenersData, unsubscribeEvent, wishlistData) ==
    IF wishlistData # <<>>
    THEN opened(listenersData, "event", wishlistData[1].eventId)
    ELSE listenersData

\* The snapshot callback of the screen, as far as listeners go: with a
\* wishlist that has an eventId, the previous event listener, if any, is
\* unsubscribed and a new one is opened; otherwise nothing is touched.
onWishlistData(listenersData, unsubscribeEvent, wishlistData) ==
    IF wishlistData # <<>>
    THEN opened(closed(listenersData, unsubscribeEvent),
                "event", wishlistData[1].eventId)
    ELSE listenersData

\* No more than MaxOps listeners are opened in all.
MayOpen == Len(subs) < MaxOps

\* The effect of the screen runs: subscribeToWishlist(id, ...).
ScreenMounts ==
    /\ Screen \notin DOMAIN calls
    /\ MayOpen
    /\ subs' = opened(subs, "wishlist", "W1")
    /\ calls' = [x \in DOMAIN calls \cup {Screen} |->
                    IF x = Screen
                    THEN [fn |-> "WishlistDetailScreen", wishlist |-> <<>>,
                          unsubscribeWishlist |-> Len(subs) + 1,
                          unsubscribeEvent |-> NoUnsubscribe]
                    ELSE calls[x]]
    /\ UNCHANGED <<events, issued, ops, last, wishlists, assignments>>

\* The wishlist listener of the mounted screen delivers a snapshot.
WishlistSnapshot(wishlistData) ==
    /\ Screen \in DOMAIN calls
    /\ subs[calls[Screen].unsubscribeWishlist].state = "live"
    /\ wishlistData # <<>> => MayOpen
    /\ subs' = onWishlistData(subs, calls[Screen].unsubscribeEvent, wishlistData)
    /\ calls' = [calls EXCEPT
                    ![Screen].wishlist = wishlistData,
                    ![Screen].unsubscribeEvent =
                        IF wishlistData # <<>> THEN Len(subs') ELSE @]
    /\ UNCHANGED <<events, issued, ops, last, wishlists, assignments>>

\* The cleanup of the effect of the screen (unmount, or another id).
ScreenCleanup ==
    /\ Screen \in DOMAIN calls
    /\ subs' = closed(closed(subs, calls[Screen].unsubscribeWishlist),
                      calls[Screen].unsubscribeEvent)
    /\ calls' = [x \in DOMAIN calls \ {Screen} |-> calls[x]]
    /\ UNCHANGED <<events, issued, ops, last, wishlists, assignments>>

\* The effect of the provider runs, at mount or because user?.email is
\* another than at its last run, whose cleanup runs first: without an email
\* it returns early, with one it subscribes.
ProviderEffect(email) ==
    /\ Provider \in DOMAIN calls => calls[Provider].email # email
    /\ email # NoEmail => MayOpen
    /\ LET cleaned == IF Provider \in DOMAIN calls
                      THEN closed(subs, calls[Provider].unsubscribe)
                      ELSE subs
       IN  /\ subs' = IF email = NoEmail THEN cleaned
                      ELSE opened(cleaned, "eventsWithPendingInvitations", email)
           /\ calls' = [x \in DOMAIN calls \cup {Provider} |->
                           IF x = Provider
                           THEN [fn |-> "InvitationsProvider", email |-> email,
                                 unsubscribe |-> IF email = NoEmail
                                                 THEN NoUnsubscribe
                                                 ELSE Len(cleaned) + 1]
                           ELSE calls[x]]
    /\ UNCHANGED <<events, issued, ops, last, wishlists, assignments>>

\* The provider unmounts: the cleanup of its last effect runs.
ProviderCleanup ==
    /\ Provider \in DOMAIN calls
    /\ subs' = closed(subs, calls[Provider].unsubscribe)
    /\ calls' = [x \in DOMAIN calls \ {Provider} |-> calls[x]]
    /\ UNCHANGED <<events, issued, ops, last, wishlists, assignments>>

NextScreens ==
    \/ ScreenMounts
    \/ \E wishlistData \in WishlistSnapshots : WishlistSnapshot(wishlistData)
    \/ ScreenCleanup
    \/ \E email \in SignedInEmails : ProviderEffect(email)
    \/ ProviderCleanup

SpecScreens == Init /\ [][NextScreens]_vars

\* ------------------------------- deleteEvent beside wishlists and assignments

\* The event calls that create and delete, beside the calls that make the
\* wishlists and the assignments that refer to an event by its id.
NextOrphans ==
    \/ \E eventId \in ListedEventIds, name \in Names, createdBy \in Hosts :
           CreateEvent(eventId, name, createdBy)
    \/ \E eventId \in ListedEventIds : DeleteEvent(eventId)
    \/ \E wishlistId \in WishlistIds, name \in WishlistNames,
          eventId \in ListedEventIds, createdBy \in Owners :
           CreateWishlist(wishlistId, name, eventId, createdBy)
    \/ \E t \in Callers, eventId \in ListedEventIds, wishlistId \in WishlistIds,
          assignedTo \in Buyers, assignedBy \in Organizers :
           CreateAssignmentQuery(t, eventId, wishlistId, assignedTo, assignedBy)
    \/ \E t \in Callers, assignmentId \in AssignmentIds : AddDoc(t, assignmentId)

SpecOrphans == Init /\ [][NextOrphans]_vars

\* ------------------------------------------------- vocabulary of the claims

\* The indices of the records of an invitations array for one email.
RecordsFor(invitations, email) ==
    {i \in 1..Len(invitations) : invitations[i].email = email}

HasRecord(docData, email, status) ==
    \E i \in RecordsFor(docData.invitations, email) :
        docData.invitations[i].status = status

HasMember(docData, userId) ==
    \E i \in 1..Len(docData.members) : docData.members[i] = userId

\* The least index of a pending record for email (there is one).
FirstPending(invitations, email) ==
    CHOOSE i \in RecordsFor(invitations, email) :
        /\ invitations[i].status = "pending"
        /\ \A j \in RecordsFor(invitations, email) :
               invitations[j].status = "pending" => i <= j

\* The calls that start in this step: one that settles at once (it threw
\* after its read, or it is a single store round trip), or one that goes on
\* to its next await.
StartedCalls ==
    IF ops' # ops + 1 THEN {}
    ELSE IF calls' = calls
    THEN {[fn |-> last'.fn, eventId |-> last'.eventId, args |-> last'.args,
           settled |-> TRUE, result |-> last'.result]}
    ELSE {[fn |-> calls'[t].fn, eventId |-> calls'[t].eventId,
           args |-> calls'[t].args, settled |-> FALSE, result |-> Ok] :
              t \in DOMAIN calls' \ DOMAIN calls}

\* The calls whose updateDoc settles in this step, each with its outcome.
WrittenCalls ==
    {[call |-> calls[t], result |-> last'.result] :
        t \in DOMAIN calls \ DOMAIN calls'}

\* The write of call c lands on the very document that c read.
Fresh(c) ==
    /\ c.eventId \in DOMAIN events
    /\ events[c.eventId] = c.eventData

\* A step changes no document but that of eventId, and there only the
\* fields in fields.
OnlyFieldsChange(eventId, fields) ==
    /\ DOMAIN events' = DOMAIN events
    /\ \A x \in DOMAIN events \ {eventId} : events'[x] = events[x]
    /\ \A f \in DOMAIN events[eventId] \ fields :
           events'[eventId][f] = events[eventId][f]

\* ------------------------------------------------------------------ claims

\* C1: for every event in the store, createdBy is one of its members, in
\* every reachable state, whatever the interleaving of the engine calls.
C1_CreatorIsMember ==
    \A eventId \in DOMAIN events :
        HasMember(events[eventId], events[eventId].createdBy)

\* C1 witness: a member was removed from an event while another call on
\* the store was still in flight.
C1_Witness ==
    /\ last.fn = "removeMemberFromEvent"
    /\ last.result = Ok
    /\ last.eventId \in DOMAIN events
    /\ DOMAIN calls # {}

\* C2: no event holds two pending invitation records for one email, in
\* every reachable state, whatever the interleaving of reads and writes.
C2_OnePendingPerEmail ==
    \A eventId \in DOMAIN events :
        \A i, j \in 1..Len(events[eventId].invitations) :
            LET invitations == events[eventId].invitations
            IN  (/\ invitations[i].email = invitations[j].email
                 /\ invitations[i].status = "pending"
                 /\ invitations[j].status = "pending") => i = j

\* C2 witness: an invite wrote from a snapshot without a record for its
\* email onto a document that already held a pending record for that email,
\* written by a concurrent invite.
C2_Witness ==
    /\ last.fn = "inviteUserToEvent"
    /\ last.result = Ok
    /\ RecordsFor(last.read.invitations, last.args.email) = {}
    /\ HasRecord(last.before, last.args.email, "pending")
    /\ HasRecord(events[last.eventId], last.args.email, "pending")

\* C3: the members array of an event holds no user id twice, in every
\* reachable state, whatever the interleaving of accepts and removals.
C3_MembersDistinct ==
    \A eventId \in DOMAIN events :
        \A i, j \in 1..Len(events[eventId].members) :
            events[eventId].members[i] = events[eventId].members[j] => i = j

\* C3 witness: an accept wrote from a snapshot in which its user was no
\* member onto a document in which a concurrent accept had already made
\* that user a member.
C3_Witness ==
    /\ last.fn = "acceptInvitation"
    /\ last.result = Ok
    /\ ~HasMember(last.read, last.args.userId)
    /\ HasMember(last.before, last.args.userId)
    /\ HasMember(events[last.eventId], last.args.userId)

\* Membership and invitation of userId/email disagree in docData.
Partial(docData, userId, email) ==
    \/ HasMember(docData, userId) /\ HasRecord(docData, email, "pending")
    \/ ~HasMember(docData, userId) /\ HasRecord(docData, email, "accepted")

\* C4: a successful acceptInvitation(E, U, e) whose write lands on the
\* document it read changes the store in that one step only: the pending
\* record of e becomes accepted and U is appended to members together, so
\* neither the state before nor the state after the write has U as a
\* member with e pending or e accepted without U a member; afterwards U is
\* a member and e has exactly one record, with status accepted.
C4_AcceptIsOneWrite ==
    [][\A w \in WrittenCalls :
          (w.call.fn = "acceptInvitation" /\ w.result = Ok /\ Fresh(w.call)) =>
              LET eventId == w.call.eventId
                  userId == w.call.args.userId
                  email == w.call.args.email
                  pre == events[eventId]
                  post == events'[eventId]
                  idx == FirstPending(pre.invitations, email)
              IN  /\ OnlyFieldsChange(eventId, {"invitations", "members"})
                  /\ ~Partial(pre, userId, email)
                  /\ ~Partial(post, userId, email)
                  /\ post.members = Append(pre.members, userId)
                  /\ Len(post.invitations) = Len(pre.invitations)
                  /\ \A i \in 1..Len(pre.invitations) :
                         post.invitations[i] =
                             IF i = idx
                             THEN [email |-> email, status |-> "accepted",
                                   invitedBy |-> pre.invitations[i].invitedBy]
                             ELSE pre.invitations[i]
                  /\ Cardinality(RecordsFor(post.invitations, email)) = 1
                  /\ HasRecord(post, email, "accepted")
                  /\ HasMember(post, userId)
      ]_vars

\* C4 witness: invite then accept: the accepted user is a member and the
\* only invitation record is the accepted one.
C4_Witness ==
    /\ last.fn = "acceptInvitation"
    /\ last.result = Ok
    /\ last.eventId \in DOMAIN events
    /\ calls = <<>>
    /\ last.read = last.before
    /\ last.before.invitations =
           <<[email |-> last.args.email, status |-> "pending",
              invitedBy |-> last.before.createdBy]>>
    /\ HasMember(events[last.eventId], last.args.userId)
    /\ Len(events[last.eventId].members) = 2
    /\ Len(events[last.eventId].invitations) = 1
    /\ HasRecord(events[last.eventId], last.args.email, "accepted")

\* C5: inviteUserToEvent(E, email, actor) on an existing event without a
\* record for email goes through, and its write, landing on the document it
\* read, appends the one record {email, pending, invitedBy: actor} at the
\* end: the records before it keep their values and order, and members and
\* every other field stay.
C5_InviteAppends ==
    [][/\ \A s \in StartedCalls :
              (/\ s.fn = "inviteUserToEvent"
               /\ s.eventId \in DOMAIN events
               /\ RecordsFor(events[s.eventId].invitations, s.args.email) = {})
              => ~s.settled /\ events' = events
       /\ \A w \in WrittenCalls :
              (/\ w.call.fn = "inviteUserToEvent"
               /\ Fresh(w.call)
               /\ RecordsFor(events[w.call.eventId].invitations,
                             w.call.args.email) = {})
              => LET pre == events[w.call.eventId]
                     post == events'[w.call.eventId]
                 IN  /\ w.result = Ok
                     /\ OnlyFieldsChange(w.call.eventId, {"invitations"})
                     /\ Len(post.invitations) = Len(pre.invitations) + 1
                     /\ \A i \in 1..Len(pre.invitations) :
                            post.invitations[i] = pre.invitations[i]
                     /\ post.invitations[Len(post.invitations)] =
                            [email |-> w.call.args.email,
                             status |-> "pending",
                             invitedBy |-> w.call.args.invitedBy]
      ]_vars

\* C5 witness: scenario A, a fresh event of creator U1 after U1 invited
\* b@x.com.
C5_Witness ==
    /\ last.fn = "inviteUserToEvent"
    /\ last.result = Ok
    /\ last.eventId \in DOMAIN events
    /\ last.read = last.before
    /\ last.before.invitations = <<>>
    /\ events[last.eventId].createdBy = "U1"
    /\ events[last.eventId].members = <<"U1">>
    /\ events[last.eventId].invitations =
           <<[email |-> "b@x.com", status |-> "pending", invitedBy |-> "U1"]>>

\* C6: inviteUserToEvent(E, email, actor) on an event that holds a pending
\* record for email fails with 'User already invited' and writes nothing:
\* it settles at its read and the store stays as it was.
C6_InviteAlreadyInvited ==
    [][\A s \in StartedCalls :
          (/\ s.fn = "inviteUserToEvent"
           /\ s.eventId \in DOMAIN events
           /\ HasRecord(events[s.eventId], s.args.email, "pending"))
          => /\ s.settled
             /\ s.result = AlreadyInvited
             /\ events' = events
             /\ calls' = calls
      ]_vars

\* C6 witness: an invite was refused as already invited.
C6_Witness ==
    /\ last.fn = "inviteUserToEvent"
    /\ last.result = AlreadyInvited
    /\ HasRecord(events[last.eventId], last.args.email, "pending")

\* C7: inviteUserToEvent(E, email, actor) on an event whose record for email
\* is accepted or rejected goes through, and its write, landing on the
\* document it read, overwrites that record at its index with
\* {email, pending, invitedBy: actor}: the array keeps its length and every
\* other record, and every other field stays.
C7_InviteOverwritesInPlace ==
    [][/\ \A s \in StartedCalls :
              (/\ s.fn = "inviteUserToEvent"
               /\ s.eventId \in DOMAIN events
               /\ RecordsFor(events[s.eventId].invitations, s.args.email) # {}
               /\ ~HasRecord(events[s.eventId], s.args.email, "pending"))
              => ~s.settled /\ events' = events
       /\ \A w \in WrittenCalls :
              (/\ w.call.fn = "inviteUserToEvent"
               /\ Fresh(w.call)
               /\ RecordsFor(events[w.call.eventId].invitations,
                             w.call.args.email) # {})
              => LET pre == events[w.call.eventId]
                     post == events'[w.call.eventId]
                     own == RecordsFor(pre.invitations, w.call.args.email)
                 IN  /\ w.result = Ok
                     /\ OnlyFieldsChange(w.call.eventId, {"invitations"})
                     /\ Len(post.invitations) = Len(pre.invitations)
                     /\ \A i \in 1..Len(pre.invitations) :
                            post.invitations[i] =
                                IF i \in own /\ \A j \in own : i <= j
                                THEN [email |-> w.call.args.email,
                                      status |-> "pending",
                                      invitedBy |-> w.call.args.invitedBy]
                                ELSE pre.invitations[i]
      ]_vars

\* C7 witness: a re-invite after accept and removal (the removal left the
\* accepted record behind): the event is back to one member and its single
\* record, accepted before the write, is pending again.
C7_Witness ==
    /\ last.fn = "inviteUserToEvent"
    /\ last.result = Ok
    /\ last.eventId \in DOMAIN events
    /\ last.read = last.before
    /\ Len(last.before.members) = 1
    /\ Len(last.before.invitations) = 1
    /\ HasRecord(last.before, last.args.email, "accepted")
    /\ Len(events[last.eventId].members) = 1
    /\ Len(events[last.eventId].invitations) = 1
    /\ HasRecord(events[last.eventId], last.args.email, "pending")

\* C8: acceptInvitation(E, U, e) on an existing event fails with the
\* not-found error when E has no pending record for e, and with the
\* 'already a member' error when it has one but U is a member; either way
\* it settles at its read and the store stays as it was.
C8_AcceptErrors ==
    [][\A s \in StartedCalls :
          (s.fn = "acceptInvitation" /\ s.eventId \in DOMAIN events) =>
              LET docData == events[s.eventId]
              IN  /\ ~HasRecord(docData, s.args.email, "pending")
                         => /\ s.settled
                            /\ s.result = InvitationNotFound
                            /\ events' = events
                            /\ calls' = calls
                  /\ (/\ HasRecord(docData, s.args.email, "pending")
                      /\ HasMember(docData, s.args.userId))
                         => /\ s.settled
                            /\ s.result = AlreadyMember
                            /\ events' = events
                            /\ calls' = calls
      ]_vars

\* C8 witness: an accept by a user who is a member already was refused,
\* the invitation still pending.
C8_Witness ==
    /\ last.fn = "acceptInvitation"
    /\ last.result = AlreadyMember
    /\ HasMember(events[last.eventId], last.args.userId)
    /\ HasRecord(events[last.eventId], last.args.email, "pending")

\* C9: a successful rejectInvitation(E, e) leaves members and every field
\* but invitations as they are; landing on the document it read, it changes
\* the status of the first pending record of e to rejected and nothing else
\* of the array: same length, same order, same other records.
C9_RejectFrame ==
    [][\A w \in WrittenCalls :
          (w.call.fn = "rejectInvitation" /\ w.result = Ok) =>
              LET pre == events[w.call.eventId]
                  post == events'[w.call.eventId]
              IN  /\ OnlyFieldsChange(w.call.eventId, {"invitations"})
                  /\ post.members = pre.members
                  /\ Fresh(w.call) =>
                       /\ Len(post.invitations) = Len(pre.invitations)
                       /\ \A i \in 1..Len(pre.invitations) :
                           post.invitations[i] =
                             IF i = FirstPending(pre.invitations, w.call.args.email)
                             THEN [email |-> pre.invitations[i].email,
                                   status |-> "rejected",
                                   invitedBy |-> pre.invitations[i].invitedBy]
                             ELSE pre.invitations[i]
      ]_vars

\* C9 witness: a reject went through on an event with two invitations, the
\* other one untouched.
C9_Witness ==
    /\ last.fn = "rejectInvitation"
    /\ last.result = Ok
    /\ last.eventId \in DOMAIN events
    /\ last.read = last.before
    /\ HasRecord(last.before, last.args.email, "pending")
    /\ Len(events[last.eventId].invitations) = 2
    /\ HasRecord(events[last.eventId], last.args.email, "rejected")
    /\ \E i \in 1..2 : events[last.eventId].invitations[i].status = "pending"

\* C10: rejectInvitation(E, e) on an existing event without a pending
\* record for e (none at all, or an accepted or rejected one) fails with
\* the not-found error and leaves the store as it was; in particular a
\* reject right after a successful reject of the same invitation fails and
\* the record stays rejected.
C10_RejectNotPending ==
    [][\A s \in StartedCalls :
          (s.fn = "rejectInvitation" /\ s.eventId \in DOMAIN events) =>
              /\ ~HasRecord(events[s.eventId], s.args.email, "pending")
                     => /\ s.settled
                        /\ s.result = InvitationNotFound
                        /\ events' = events
                        /\ calls' = calls
              /\ (/\ last.fn = "rejectInvitation"
                  /\ last.result = Ok
                  /\ last.eventId = s.eventId
                  /\ last.args.email = s.args.email)
                     => /\ s.settled
                        /\ s.result = InvitationNotFound
                        /\ events' = events
                        /\ HasRecord(events'[s.eventId], s.args.email, "rejected")
      ]_vars

\* C10 witness: the second of two rejects in a row was refused, the record
\* rejected.
C10_Witness ==
    /\ last.fn = "rejectInvitation"
    /\ last.result = InvitationNotFound
    /\ last.eventId \in DOMAIN events
    /\ last.before = events[last.eventId]
    /\ HasRecord(events[last.eventId], last.args.email, "rejected")

\* The k-th least element of a set of positions.
NthOf(positions, k) ==
    CHOOSE i \in positions : Cardinality({j \in positions : j <= i}) = k

\* post is pre cut down to the positions in kept, order preserved.
IsSelection(post, pre, kept) ==
    /\ Len(post) = Cardinality(kept)
    /\ \A k \in 1..Len(post) : post[k] = pre[NthOf(kept, k)]

\* C11: removeMemberFromEvent(E, memberId) on an existing event fails and
\* writes nothing when memberId is the creator, whatever members and
\* invitations hold, and when memberId is no member: the call settles at
\* its read with the error and the store stays as it was.
C11_RemoveRefused ==
    [][\A s \in StartedCalls :
          (s.fn = "removeMemberFromEvent" /\ s.eventId \in DOMAIN events) =>
              LET docData == events[s.eventId]
              IN  /\ docData.createdBy = s.args.memberId
                         => /\ s.settled
                            /\ s.result = CannotRemoveCreator
                            /\ events' = events
                            /\ calls' = calls
                  /\ ~HasMember(docData, s.args.memberId)
                         => /\ s.settled
                            /\ s.result \in {NotAMember, CannotRemoveCreator}
                            /\ events' = events
                            /\ calls' = calls
      ]_vars

\* C11 witness: the removal of the creator was refused on an event with
\* another member and an invitation.
C11_Witness ==
    /\ last.fn = "removeMemberFromEvent"
    /\ last.result = CannotRemoveCreator
    /\ last.before = events[last.eventId]
    /\ Len(events[last.eventId].members) = 2
    /\ Len(events[last.eventId].invitations) >= 1

\* C12: a successful removeMemberFromEvent(E, M) that got M's profile
\* email and lands on the document it read leaves M out of members and no
\* accepted record of that email; the other members and every other
\* invitation record (other emails, pending or rejected records of the
\* same email) stay, in their order, and no other field changes.
C12_RemoveEffect ==
    [][\A w \in WrittenCalls :
          (/\ w.call.fn = "removeMemberFromEvent"
           /\ w.result = Ok
           /\ Fresh(w.call)
           /\ ~w.call.userData.thrown
           /\ w.call.userData.email # NoUserData) =>
              LET pre == events[w.call.eventId]
                  post == events'[w.call.eventId]
                  memberId == w.call.args.memberId
                  email == w.call.userData.email
              IN  /\ OnlyFieldsChange(w.call.eventId, {"members", "invitations"})
                  /\ email = userEmail[memberId]
                  /\ ~HasMember(post, memberId)
                  /\ ~HasRecord(post, email, "accepted")
                  /\ IsSelection(post.members, pre.members,
                         {i \in 1..Len(pre.members) : pre.members[i] # memberId})
                  /\ IsSelection(post.invitations, pre.invitations,
                         {i \in 1..Len(pre.invitations) :
                             ~(/\ pre.invitations[i].email = email
                               /\ pre.invitations[i].status = "accepted")})
      ]_vars

\* C12 witness: a removal dropped the accepted record of the member's
\* email and kept the record of another email.
C12_Witness ==
    /\ last.fn = "removeMemberFromEvent"
    /\ last.result = Ok
    /\ last.read = last.before
    /\ HasRecord(last.before, userEmail[last.args.memberId], "accepted")
    /\ Len(last.before.invitations) = 2
    /\ Len(events[last.eventId].invitations) = 1
    /\ ~HasMember(events[last.eventId], last.args.memberId)

\* C13: when getUserData inside removeMemberFromEvent(E, M) throws or gives
\* no profile, the removal goes on to its write, and that write, the
\* document still there, succeeds: members is the array read without M and
\* invitations is the array read, unchanged.
C13_RemoveWithoutProfile ==
    [][/\ \A t \in DOMAIN calls :
              calls[t].pc = "getUserData"
              => /\ t \in DOMAIN calls'
                 /\ calls'[t] # calls[t]
                        => /\ calls'[t].pc = "updateDoc"
                           /\ events' = events
                           /\ last' = last
       /\ \A w \in WrittenCalls :
              (/\ w.call.fn = "removeMemberFromEvent"
               /\ w.call.eventId \in DOMAIN events
               /\ (w.call.userData.thrown \/ w.call.userData.email = NoUserData))
              => LET read == w.call.eventData
                     post == events'[w.call.eventId]
                     memberId == w.call.args.memberId
                 IN  /\ w.result = Ok
                     /\ ~HasMember(post, memberId)
                     /\ IsSelection(post.members, read.members,
                            {i \in 1..Len(read.members) :
                                read.members[i] # memberId})
                     /\ post.invitations = read.invitations
                     /\ Fresh(w.call) =>
                            post.invitations = events[w.call.eventId].invitations
      ]_vars

\* C13 witness: a removal went through although the accepted record of the
\* member's email is still there: the profile lookup gave no email.
C13_Witness ==
    /\ last.fn = "removeMemberFromEvent"
    /\ last.result = Ok
    /\ last.read = last.before
    /\ HasRecord(last.before, userEmail[last.args.memberId], "accepted")
    /\ HasRecord(events[last.eventId], userEmail[last.args.memberId], "accepted")
    /\ ~HasMember(events[last.eventId], last.args.memberId)

\* The removal that settled last ran alone on an event of two members whose
\* only invitation, for email, was accepted: the state that invite and
\* accept leave on a fresh event.
RemovedAfterAccept(email) ==
    /\ last.fn = "removeMemberFromEvent"
    /\ last.result = Ok
    /\ last.read = last.before
    /\ Len(last.before.members) = 2
    /\ Len(last.before.invitations) = 1
    /\ last.before.invitations[1].email = email
    /\ last.before.invitations[1].status = "accepted"

\* C14: after invite(E, e), accept(E, U2, e) and remove(E, U2) run one
\* after the other, members is the creator alone, and a following
\* invite(E, e) is not refused as already invited: it goes on to its write
\* and leaves exactly one record for e, pending, whether the removal
\* cleaned the accepted record up or skipped that.
C14_ReinviteAfterRemoval ==
    [][/\ \A e \in Emails :
              (RemovedAfterAccept(e) /\ last.eventId \in DOMAIN events)
              => events[last.eventId].members =
                     <<events[last.eventId].createdBy>>
       /\ \A s \in StartedCalls :
              (/\ s.fn = "inviteUserToEvent"
               /\ calls = <<>>
               /\ RemovedAfterAccept(s.args.email)
               /\ s.eventId = last.eventId)
              => ~s.settled /\ events' = events
       /\ \A w \in WrittenCalls :
              (/\ w.call.fn = "inviteUserToEvent"
               /\ DOMAIN calls' = {}
               /\ RemovedAfterAccept(w.call.args.email)
               /\ w.call.eventId = last.eventId
               /\ Fresh(w.call))
              => LET post == events'[w.call.eventId]
                 IN  /\ w.result = Ok
                     /\ post.members = <<post.createdBy>>
                     /\ Cardinality(RecordsFor(post.invitations,
                                               w.call.args.email)) = 1
                     /\ HasRecord(post, w.call.args.email, "pending")
      ]_vars

\* C14 witness: after invite, accept and a removal that cleaned the
\* accepted record up, the re-invite of the same email was taken and is
\* about to write its one pending record.
C14_Witness ==
    \E t \in DOMAIN calls :
        /\ calls[t].fn = "inviteUserToEvent"
        /\ RemovedAfterAccept(calls[t].args.email)
        /\ last.args.memberId = "U2"
        /\ userEmail["U2"] = calls[t].args.email
        /\ Fresh(calls[t])
        /\ events[calls[t].eventId].invitations = <<>>
        /\ events[calls[t].eventId].members = <<"U1">>
        /\ calls[t].data.invitations =
               <<pendingInvitation(calls[t].args.email, calls[t].args.invitedBy)>>

\* The status of the record of email in docData, "absent" without one.
StatusOf(docData, email) ==
    IF RecordsFor(docData.invitations, email) = {} THEN "absent"
    ELSE docData.invitations[
             CHOOSE i \in RecordsFor(docData.invitations, email) :
                 \A j \in RecordsFor(docData.invitations, email) : i <= j].status

\* The steps of an invitation record: function, status before, status after.
AllowedSteps ==
    {<<"inviteUserToEvent", "absent", "pending">>,
     <<"inviteUserToEvent", "accepted", "pending">>,
     <<"inviteUserToEvent", "rejected", "pending">>,
     <<"acceptInvitation", "pending", "accepted">>,
     <<"rejectInvitation", "pending", "rejected">>,
     <<"removeMemberFromEvent", "accepted", "absent">>}

\* C15: when calls on an event do not overlap (every write lands on the
\* document its call read), the status of the record of an email changes
\* only by absent->pending, accepted->pending, rejected->pending (invite),
\* pending->accepted (accept), pending->rejected (reject) and
\* accepted->removed (remove member); no step takes a record from rejected
\* to accepted, from accepted to rejected, or from absent to accepted or
\* rejected; and only a write of one of these calls changes a status.
C15_StatusSteps ==
    [][\A eventId \in DOMAIN events \cap DOMAIN events' : \A e \in Emails :
          LET from == StatusOf(events[eventId], e)
              to == StatusOf(events'[eventId], e)
          IN  from # to =>
                  /\ WrittenCalls # {}
                  /\ \A w \in WrittenCalls :
                         /\ w.call.eventId = eventId
                         /\ Fresh(w.call) => <<w.call.fn, from, to>> \in AllowedSteps
      ]_vars

\* C15 witness: an invite recycled a rejected record to pending.
C15_Witness ==
    /\ last.fn = "inviteUserToEvent"
    /\ last.result = Ok
    /\ last.read = last.before
    /\ StatusOf(last.before, last.args.email) = "rejected"
    /\ StatusOf(events[last.eventId], last.args.email) = "pending"

\* ----------------------------------------- vocabulary of the wishlist claims

\* The indices of the items of a wishlist document that have the id itemId.
ItemsWithId(wishlistData, itemId) ==
    {i \in 1..Len(wishlistData.items) : wishlistData.items[i].id = itemId}

\* The item holds a value under key.
Present(item, key) == key \in DOMAIN item /\ item[key] # Undefined

\* No item of the array holds undefined under any key.
NoUndefinedIn(items) ==
    \A i \in 1..Len(items) : \A key \in DOMAIN items[i] : items[i][key] # Undefined

\* The wishlist calls that start in this step: one that settles at once, or
\* one that goes on to its updateDoc.
StartedWishlistCalls ==
    IF ops' # ops + 1 THEN {}
    ELSE IF calls' = calls
    THEN {[fn |-> last'.fn, wishlistId |-> last'.wishlistId, args |-> last'.args,
           settled |-> TRUE, result |-> last'.result]}
    ELSE {[fn |-> calls'[t].fn, wishlistId |-> calls'[t].wishlistId,
           args |-> calls'[t].args, settled |-> FALSE, result |-> Ok] :
              t \in DOMAIN calls' \ DOMAIN calls}

\* Every item of every stored wishlist has both purchase fields or neither.
PurchasePaired(store) ==
    \A wishlistId \in DOMAIN store :
        \A i \in 1..Len(store[wishlistId].items) :
            Present(store[wishlistId].items[i], "purchasedAt")
                <=> Present(store[wishlistId].items[i], "purchasedBy")

\* -------------------------------------------------------- wishlist claims

\* C16: whatever subset of the optional fields of addItemToWishlist's item
\* is undefined, the items array handed to updateDoc holds undefined under
\* no key, in the new item as in the items that were there; the new item has
\* exactly the keys id, name and the optional fields that were given a
\* value; the store never rejects the write for an undefined value and no
\* stored item holds undefined.
C16_NoUndefinedWritten ==
    /\ \A t \in DOMAIN calls :
           calls[t].fn = "addItemToWishlist" =>
               LET items == calls[t].data.items
                   item == calls[t].args.item
               IN  /\ NoUndefinedIn(items)
                   /\ Len(items) = Len(calls[t].wishlistData.items) + 1
                   /\ DOMAIN items[Len(items)] =
                          {"id", "name"} \cup
                              {key \in DOMAIN item : item[key] # Undefined}
    /\ last.fn = "addItemToWishlist" => last.result # UnsupportedUndefined
    /\ \A wishlistId \in DOMAIN wishlists :
           NoUndefinedIn(wishlists[wishlistId].items)

\* C16 witness: an item whose description is undefined was added to a
\* wishlist that already had an item, and is stored without a description.
C16_Witness ==
    /\ last.fn = "addItemToWishlist"
    /\ last.result = Ok
    /\ last.args.item.description = Undefined
    /\ last.read = last.before
    /\ Len(last.read.items) >= 1
    /\ last.wishlistId \in DOMAIN wishlists
    /\ LET items == wishlists[last.wishlistId].items
       IN  /\ Len(items) = Len(last.read.items) + 1
           /\ DOMAIN items[Len(items)] = {"id", "name"}

\* C17: an updateWishlistItem call that read a wishlist with no item of id
\* itemId does not succeed: it fails with a not-found error.
C17_UpdateMissingItemFails ==
    [][\A w \in WrittenCalls :
          (/\ w.call.fn = "updateWishlistItem"
           /\ ItemsWithId(w.call.wishlistData, w.call.args.itemId) = {})
              => w.result # Ok
      ]_vars

\* C18: in every state reached by addItemToWishlist (without purchase
\* fields), markItemAsPurchased, unmarkItemAsPurchased, deleteWishlistItem
\* and updateWishlistItem on other fields, every item has purchasedAt if and
\* only if it has purchasedBy; and the one write of a markItemAsPurchased
\* call that succeeds leaves every item of the given id with both, the
\* purchaser being the one given.
C18_PurchaseFieldsPaired ==
    [][/\ PurchasePaired(wishlists')
       /\ \A w \in WrittenCalls :
              (w.call.fn = "markItemAsPurchased" /\ w.result = Ok) =>
                  LET items == wishlists'[w.call.wishlistId].items
                  IN  \A i \in 1..Len(items) :
                          items[i].id = w.call.args.itemId =>
                              /\ Present(items[i], "purchasedAt")
                              /\ Present(items[i], "purchasedBy")
                              /\ items[i].purchasedBy = w.call.args.purchasedBy
      ]_vars

\* C18 witness: an item that had been marked as purchased was unmarked, and
\* is stored with neither purchase field.
C18_Witness ==
    /\ last.fn = "unmarkItemAsPurchased"
    /\ last.result = Ok
    /\ last.read = last.before
    /\ \E i \in ItemsWithId(last.read, last.args.itemId) :
           /\ Present(last.read.items[i], "purchasedBy")
           /\ Present(last.read.items[i], "purchasedAt")
    /\ last.wishlistId \in DOMAIN wishlists
    /\ \A i \in ItemsWithId(wishlists[last.wishlistId], last.args.itemId) :
           /\ ~Present(wishlists[last.wishlistId].items[i], "purchasedBy")
           /\ ~Present(wishlists[last.wishlistId].items[i], "purchasedAt")

\* C19: the write of an addItemToWishlist call on a wishlist that exists
\* succeeds and leaves exactly the items the call had read followed by its
\* own item, whatever the wishlist holds by then: an item that another call
\* added after the read is gone from the array, and no call is told.
C19_LastWriterWins ==
    [][\A w \in WrittenCalls :
          (/\ w.call.fn = "addItemToWishlist"
           /\ w.call.wishlistId \in DOMAIN wishlists) =>
              LET read == w.call.wishlistData.items
                  after == wishlists'[w.call.wishlistId].items
              IN  /\ w.result = Ok
                  /\ Len(after) = Len(read) + 1
                  /\ SubSeq(after, 1, Len(read)) = read
                  /\ after[Len(after)].id = ToString(w.call.args.now)
                  /\ after[Len(after)].name = w.call.args.item.name
                  /\ \A i \in 1..Len(wishlists[w.call.wishlistId].items) :
                         LET item == wishlists[w.call.wishlistId].items[i]
                         IN  (/\ \A j \in 1..Len(read) : read[j] # item
                              /\ item # after[Len(after)])
                                 => \A j \in 1..Len(after) : after[j] # item
      ]_vars

\* C19 witness: two addItemToWishlist calls read the same empty array, both
\* succeeded, and the wishlist holds the item of the second writer alone.
C19_Witness ==
    /\ last.fn = "addItemToWishlist"
    /\ last.result = Ok
    /\ last.read.items = <<>>
    /\ Len(last.before.items) = 1
    /\ last.wishlistId \in DOMAIN wishlists
    /\ Len(wishlists[last.wishlistId].items) = 1
    /\ wishlists[last.wishlistId].items[1] # last.before.items[1]
    /\ calls = <<>>

\* C20: the ids of the items of one wishlist are pairwise distinct, in every
\* reachable state.
C20_ItemIdsDistinct ==
    \A wishlistId \in DOMAIN wishlists :
        \A i, j \in 1..Len(wishlists[wishlistId].items) :
            wishlists[wishlistId].items[i].id = wishlists[wishlistId].items[j].id
                => i = j

\* C21: the write of an addItemToWishlist call leaves the items the call
\* read, each with its values and in their order, followed by the new item;
\* the write of a deleteWishlistItem call leaves the items the call read
\* whose id is not itemId, each with its values and in their order, and
\* none whose id is itemId; a deleteWishlistItem whose itemId matches no
\* item succeeds and writes the array back as it was.
C21_AddLastDeleteById ==
    [][\A w \in WrittenCalls :
          w.call.wishlistId \in DOMAIN wishlists =>
              LET read == w.call.wishlistData.items
                  after == wishlists'[w.call.wishlistId].items
              IN  /\ w.call.fn = "addItemToWishlist" =>
                         /\ w.result = Ok
                         /\ IsSelection(read, after, 1..Len(read))
                         /\ Len(after) = Len(read) + 1
                         /\ after[Len(after)].id = ToString(w.call.args.now)
                  /\ w.call.fn = "deleteWishlistItem" =>
                         /\ w.result = Ok
                         /\ IsSelection(after, read,
                                {i \in 1..Len(read) : read[i].id # w.call.args.itemId})
                         /\ ItemsWithId(w.call.wishlistData, w.call.args.itemId) = {}
                                => after = read
      ]_vars

\* C21 witness: a deleteWishlistItem whose itemId matched none of the items
\* of the wishlist succeeded and left the array as it was.
C21_Witness ==
    /\ last.fn = "deleteWishlistItem"
    /\ last.result = Ok
    /\ last.read = last.before
    /\ Len(last.read.items) >= 1
    /\ ItemsWithId(last.read, last.args.itemId) = {}
    /\ last.wishlistId \in DOMAIN wishlists
    /\ wishlists[last.wishlistId].items = last.read.items

\* C22: a reorderWishlistItems call on a wishlist that exists is never
\* refused for the array it is given, and its write succeeds and leaves
\* exactly that array, in the order given, whether or not it is a
\* rearrangement of the items the call read or of the items stored by then.
C22_ReorderStoresAsGiven ==
    [][/\ \A s \in StartedWishlistCalls :
              (/\ s.fn = "reorderWishlistItems"
               /\ s.wishlistId \in DOMAIN wishlists) => ~s.settled
       /\ \A w \in WrittenCalls :
              (/\ w.call.fn = "reorderWishlistItems"
               /\ w.call.wishlistId \in DOMAIN wishlists) =>
                  /\ w.result = Ok
                  /\ wishlists'[w.call.wishlistId].items = w.call.args.items
      ]_vars

\* C22 witness: running alone on a wishlist of one item, a reorder was given
\* an array of two items (one item twice, or one the wishlist does not
\* have); it succeeded and the array is stored as given.
C22_Witness ==
    /\ last.fn = "reorderWishlistItems"
    /\ last.result = Ok
    /\ last.read = last.before
    /\ Len(last.before.items) = 1
    /\ Len(last.args.items) = 2
    /\ last.wishlistId \in DOMAIN wishlists
    /\ wishlists[last.wishlistId].items = last.args.items

\* --------------------------------------- vocabulary of the assignment claims

\* The documents of an assignments collection with the triple of args.
TripleDocs(store, args) ==
    {id \in DOMAIN store :
        /\ store[id].eventId = args.eventId
        /\ store[id].wishlistId = args.wishlistId
        /\ store[id].assignedTo = args.assignedTo}

\* The documents of an assignments collection for one wishlist.
AssignmentsFor(store, wishlistId) ==
    {id \in DOMAIN store : store[id].wishlistId = wishlistId}

\* The one of them a query returns first.
FirstAssignment(store, wishlistId) ==
    idOrder[CHOOSE i \in 1..Len(idOrder) :
                /\ idOrder[i] \in AssignmentsFor(store, wishlistId)
                /\ \A j \in 1..Len(idOrder) :
                       idOrder[j] \in AssignmentsFor(store, wishlistId) => i <= j]

AtMostOnePerWishlist(store) ==
    \A a, b \in DOMAIN store : store[a].wishlistId = store[b].wishlistId => a = b

\* The calls that start in this step, by function and arguments.
StartedByArgs ==
    IF ops' # ops + 1 THEN {}
    ELSE IF calls' = calls
    THEN {[fn |-> last'.fn, args |-> last'.args, settled |-> TRUE,
           result |-> last'.result]}
    ELSE {[fn |-> calls'[t].fn, args |-> calls'[t].args, settled |-> FALSE,
           result |-> Ok] : t \in DOMAIN calls' \ DOMAIN calls}

\* The purchase handlers in flight that take a step.
SteppingHandlers ==
    {t \in DOMAIN calls :
        /\ calls[t].fn \in {"handleMarkPurchased", "handleUnmarkPurchased"}
        /\ t \in DOMAIN calls' => calls'[t] # calls[t]}

\* ------------------------------------------------------ assignment claims

\* C23: a createAssignment issued while a document with the same eventId,
\* wishlistId and assignedTo exists fails with 'Assignment already exists'
\* and inserts nothing; one issued while none exists is not refused; and
\* when no other create for the triple came in between (none exists at the
\* addDoc either), the call succeeds and inserts exactly one document, with
\* the fields given and status pending, so that the triple has exactly one.
C23_CreateAssignmentOnce ==
    [][/\ \A s \in StartedByArgs :
              s.fn = "createAssignment" =>
                  IF TripleDocs(assignments, s.args) # {}
                  THEN /\ s.settled
                       /\ s.result = AssignmentExists
                       /\ assignments' = assignments
                  ELSE ~s.settled
       /\ \A w \in WrittenCalls :
              (/\ w.call.fn = "createAssignment"
               /\ TripleDocs(assignments, w.call.args) = {}) =>
                  /\ w.result = Ok
                  /\ Cardinality(DOMAIN assignments' \ DOMAIN assignments) = 1
                  /\ \A id \in DOMAIN assignments : assignments'[id] = assignments[id]
                  /\ Cardinality(TripleDocs(assignments', w.call.args)) = 1
                  /\ \A id \in TripleDocs(assignments', w.call.args) :
                         /\ assignments'[id].status = "pending"
                         /\ assignments'[id].assignedBy = w.call.args.assignedBy
      ]_vars

\* C23 witness: a second createAssignment for a triple that has a document
\* failed with 'Assignment already exists'.
C23_Witness ==
    /\ last.fn = "createAssignment"
    /\ last.result = AssignmentExists
    /\ Cardinality(TripleDocs(assignments, last.args)) = 1
    /\ calls = <<>>

\* C24: a createAssignment call that passed its existence query inserts its
\* document and succeeds whatever the collection holds by then: when
\* another call inserted the same triple after the query, the triple ends
\* with one document more than it had.
C24_BothCreatesInsert ==
    [][\A w \in WrittenCalls :
          w.call.fn = "createAssignment" =>
              /\ w.result = Ok
              /\ Cardinality(TripleDocs(assignments', w.call.args)) =
                     Cardinality(TripleDocs(assignments, w.call.args)) + 1
      ]_vars

\* C24 witness: two createAssignment calls for one triple both passed the
\* query before either inserted, both succeeded, and the triple has two
\* documents.
C24_Witness ==
    /\ last.fn = "createAssignment"
    /\ last.result = Ok
    /\ TripleDocs(last.read, last.args) = {}
    /\ Cardinality(TripleDocs(last.before, last.args)) = 1
    /\ Cardinality(TripleDocs(assignments, last.args)) = 2

\* C25: a createAssignment for a wishlist that has an assignment, whoever it
\* is assigned to, is refused; and a createAssignment that ran with no other
\* call on the collection in between leaves at most one assignment per
\* wishlist when there was at most one.
C25_OneAssignmentPerWishlist ==
    [][/\ \A s \in StartedByArgs :
              (/\ s.fn = "createAssignment"
               /\ AssignmentsFor(assignments, s.args.wishlistId) # {})
                  => s.settled /\ s.result # Ok
       /\ \A w \in WrittenCalls :
              (/\ w.call.fn = "createAssignment"
               /\ w.call.read = assignments
               /\ AtMostOnePerWishlist(assignments))
                  => AtMostOnePerWishlist(assignments')
      ]_vars

\* C26: once the item mutation of handleMarkPurchased has succeeded the
\* handler looks the assignment of the wishlist up; when the lookup does
\* not fail and the assignment it returns is pending, the handler goes on
\* to update that assignment, and when the update does not fail the
\* assignment is purchased and nothing else of the collection changed;
\* handleUnmarkPurchased does the same from purchased to pending.
C26_PurchaseMirrored ==
    [][\A t \in SteppingHandlers :
          LET c == calls[t]
              from == IF c.fn = "handleMarkPurchased" THEN "pending" ELSE "purchased"
              to == IF c.fn = "handleMarkPurchased" THEN "purchased" ELSE "pending"
          IN  /\ (c.pc = "item updateDoc" /\ c.wishlistId \in DOMAIN wishlists) =>
                     /\ t \in DOMAIN calls'
                     /\ calls'[t].pc = "getAssignmentForWishlist"
              /\ (/\ c.pc = "getAssignmentForWishlist"
                  /\ AssignmentsFor(assignments, c.wishlistId) # {}
                  /\ assignments[FirstAssignment(assignments, c.wishlistId)].status
                         = from) =>
                     \/ t \notin DOMAIN calls' /\ last'.mirror = "lookup failed"
                     \/ /\ t \in DOMAIN calls'
                        /\ calls'[t].pc = "updateAssignmentStatus"
                        /\ calls'[t].assignmentId =
                               FirstAssignment(assignments, c.wishlistId)
              /\ c.pc = "updateAssignmentStatus" =>
                     /\ t \notin DOMAIN calls'
                     /\ \/ last'.mirror = "update failed" /\ assignments' = assignments
                        \/ /\ last'.mirror = "updated"
                           /\ last'.result = Ok
                           /\ DOMAIN assignments' = DOMAIN assignments
                           /\ assignments'[c.assignmentId].status = to
                           /\ \A id \in DOMAIN assignments \ {c.assignmentId} :
                                  assignments'[id] = assignments[id]
      ]_vars

\* C26 witness: on a wishlist with an assignment, handleUnmarkPurchased
\* unmarked the item that a handleMarkPurchased had marked, and took the
\* assignment back from purchased to pending.
C26_Witness ==
    /\ last.fn = "handleUnmarkPurchased"
    /\ last.result = Ok
    /\ last.mirror = "updated"
    /\ \E i \in ItemsWithId(last.read, last.args.itemId) :
           Present(last.read.items[i], "purchasedBy")
    /\ \A i \in ItemsWithId(wishlists[last.wishlistId], last.args.itemId) :
           ~Present(wishlists[last.wishlistId].items[i], "purchasedBy")
    /\ Cardinality(AssignmentsFor(assignments, last.wishlistId)) = 1
    /\ \A id \in AssignmentsFor(assignments, last.wishlistId) :
           assignments[id].status = "pending"

\* C27: once the item mutation of a purchase handler has succeeded, no step
\* of the handler changes the wishlist again, the handler ends telling the
\* user of no error, and a lookup or update that fails leaves the
\* assignments as they were.
C27_MirrorIsBestEffort ==
    [][\A t \in SteppingHandlers :
          calls[t].pc \in {"getAssignmentForWishlist", "updateAssignmentStatus"} =>
              /\ wishlists' = wishlists
              /\ t \notin DOMAIN calls' =>
                     /\ last'.result = Ok
                     /\ last'.item = Ok
                     /\ last'.mirror \in {"lookup failed", "update failed"}
                            => assignments' = assignments
      ]_vars

\* C27 witness: handleMarkPurchased marked the item, the update of the
\* pending assignment failed, the item is still marked, the assignment is
\* still pending and the user was told of no error.
C27_Witness ==
    /\ last.fn = "handleMarkPurchased"
    /\ last.mirror = "update failed"
    /\ last.result = Ok
    /\ last.wishlistId \in DOMAIN wishlists
    /\ \E i \in ItemsWithId(wishlists[last.wishlistId], last.args.itemId) :
           /\ Present(wishlists[last.wishlistId].items[i], "purchasedBy")
           /\ Present(wishlists[last.wishlistId].items[i], "purchasedAt")
    /\ AssignmentsFor(assignments, last.wishlistId) # {}
    /\ \A id \in AssignmentsFor(assignments, last.wishlistId) :
           assignments[id].status = "pending"

\* The subscribers: the live queries that have been subscribed to.
Subscribed == DOMAIN subs

LiveFor(query, key) == Live(query) /\ subs[query].key = key

\* The ids of the events of the list a subscriber was last handed.
DeliveredIds(query) == {subs[query].data[k].id : k \in 1..Len(subs[query].data)}

IsMember(eventId, userId) ==
    /\ eventId \in DOMAIN events
    /\ includes(events[eventId].members, userId)

\* The (1-based) positions of the invitation records of an event that are
\* for email and pending.
PendingRecords(collectionData, eventId, email) ==
    IF eventId \in DOMAIN collectionData
    THEN {i \in 1..Len(collectionData[eventId].invitations) :
             /\ collectionData[eventId].invitations[i].email = email
             /\ collectionData[eventId].invitations[i].status = "pending"}
    ELSE {}

\* C28: when a listener of either live query ends with an error, its
\* subscriber is signalled in that step: a subscriber that gave an error
\* callback gets the error there and its data callback is not called; one
\* that gave none gets its data callback called with the empty list. No
\* failed subscriber is without one of the two signals.
C28_ErrorAlwaysSignals ==
    [][\A query \in Queries :
          (Live(query) /\ subs'[query].state = "failed") =>
              IF subs[query].onError
              THEN /\ subs'[query].error \in ListenErrors
                   /\ subs'[query].data = subs[query].data
                   /\ subs'[query].delivered = subs[query].delivered
              ELSE /\ subs'[query].error = NoError
                   /\ subs'[query].delivered
                   /\ subs'[query].data = <<>>
      ]_vars

\* C28 witness: both listeners have failed; the subscriber of the events of
\* a user, who is a member of an event, gave no error callback and was
\* handed the empty list, and the subscriber of the pending invitations
\* gave one and holds the error.
C28_Witness ==
    /\ Subscribed = Queries
    /\ subs["eventsForUser"].state = "failed"
    /\ ~subs["eventsForUser"].onError
    /\ subs["eventsForUser"].delivered
    /\ subs["eventsForUser"].data = <<>>
    /\ \E eventId \in ListedEventIds : IsMember(eventId, subs["eventsForUser"].key)
    /\ subs["eventsWithPendingInvitations"].state = "failed"
    /\ subs["eventsWithPendingInvitations"].onError
    /\ subs["eventsWithPendingInvitations"].error \in ListenErrors

\* C29: every list handed to a live subscriber of the pending invitations of
\* an email holds exactly the events of the collection, as it is when the
\* list is handed over, that have a pending invitation record for the email,
\* each once, with invitationIndex the 0-based index of the first such
\* record; an event with no such record is not in the list.
C29_PendingSnapshotExact ==
    [][LET query == "eventsWithPendingInvitations"
       IN  (/\ query \in DOMAIN subs'
            /\ subs'[query].state = "live"
            /\ subs'[query].delivered
            /\ (query \in Subscribed => subs'[query] # subs[query])) =>
               LET data == subs'[query].data
                   email == subs'[query].key
               IN  /\ {data[k].id : k \in 1..Len(data)}
                          = {id \in DOMAIN events' :
                                PendingRecords(events', id, email) # {}}
                   /\ \A k1, k2 \in 1..Len(data) :
                          data[k1].id = data[k2].id => k1 = k2
                   /\ \A k \in 1..Len(data) :
                          /\ data[k].invitationIndex + 1
                                 \in PendingRecords(events', data[k].id, email)
                          /\ \A i \in PendingRecords(events', data[k].id, email) :
                                 data[k].invitationIndex + 1 <= i
      ]_vars

\* C29 witness: two events have a record for the email, one pending and one
\* accepted, and the live subscriber holds the list of the pending one alone.
C29_Witness ==
    /\ Live("eventsWithPendingInvitations")
    /\ subs["eventsWithPendingInvitations"].delivered
    /\ Len(subs["eventsWithPendingInvitations"].data) = 1
    /\ \E pending, accepted \in ListedEventIds :
           /\ pending # accepted
           /\ accepted \in DOMAIN events
           /\ subs["eventsWithPendingInvitations"].data[1].id = pending
           /\ PendingRecords(events, pending,
                             subs["eventsWithPendingInvitations"].key) # {}
           /\ \E i \in 1..Len(events[accepted].invitations) :
                  /\ events[accepted].invitations[i].email
                         = subs["eventsWithPendingInvitations"].key
                  /\ events[accepted].invitations[i].status = "accepted"

\* C30: under fair delivery, while a user is a member of an event (as after
\* a successful acceptInvitation with no later write) a live subscriber of
\* the events of that user comes to hold a list with the event; while an
\* event has no pending record for an email (as after that acceptInvitation)
\* a live subscriber of the pending invitations of that email comes to hold
\* a list without the event; and while a user is no member of an event (as
\* after a successful removeMember) a live subscriber of the events of that
\* user comes to hold a list without the event.
C30_ChangesReachSubscribers ==
    \A eventId \in EventIds, userId \in Guests :
        /\ (LiveFor("eventsForUser", userId) /\ IsMember(eventId, userId))
               ~> \/ ~LiveFor("eventsForUser", userId)
                  \/ ~IsMember(eventId, userId)
                  \/ /\ subs["eventsForUser"].delivered
                     /\ eventId \in DeliveredIds("eventsForUser")
        /\ (/\ LiveFor("eventsWithPendingInvitations", userEmail[userId])
            /\ PendingRecords(events, eventId, userEmail[userId]) = {})
               ~> \/ ~LiveFor("eventsWithPendingInvitations", userEmail[userId])
                  \/ PendingRecords(events, eventId, userEmail[userId]) # {}
                  \/ /\ subs["eventsWithPendingInvitations"].delivered
                     /\ eventId \notin DeliveredIds("eventsWithPendingInvitations")
        /\ (LiveFor("eventsForUser", userId) /\ ~IsMember(eventId, userId))
               ~> \/ ~LiveFor("eventsForUser", userId)
                  \/ IsMember(eventId, userId)
                  \/ /\ subs["eventsForUser"].delivered
                     /\ eventId \notin DeliveredIds("eventsForUser")

\* C30 witness: the last call is a successful acceptInvitation; the live
\* subscriber of the events of the accepting user holds a list with the
\* event and the live subscriber of the pending invitations of the email
\* holds a list without it.
C30_Witness ==
    /\ last.fn = "acceptInvitation"
    /\ last.result = Ok
    /\ LiveFor("eventsForUser", last.args.userId)
    /\ subs["eventsForUser"].delivered
    /\ last.eventId \in DeliveredIds("eventsForUser")
    /\ LiveFor("eventsWithPendingInvitations", last.args.email)
    /\ subs["eventsWithPendingInvitations"].delivered
    /\ last.eventId \notin DeliveredIds("eventsWithPendingInvitations")

\* The calls whose getUserData settles in this step, each with what the read
\* of users/{uid} came to and what getUserData gave back.
LookedUpCalls ==
    {[userId |-> calls[t].args.memberId, getDoc |-> calls'[t].getDoc,
      userData |-> calls'[t].userData] :
        t \in {u \in DOMAIN calls \cap DOMAIN calls' :
                  calls[u].pc = "getUserData" /\ calls'[u] # calls[u]}}

\* C31: getUserData gives null, without throwing, when the read of the
\* profile is denied by the rules, as it does when the profile document is
\* not there; it gives the profile when the document is there; and it throws
\* exactly when the read fails for another reason.
C31_DeniedProfileIsNoProfile ==
    [][\A c \in LookedUpCalls :
          /\ c.getDoc \in {"permission-denied", "missing"} =>
                 (~c.userData.thrown /\ c.userData.email = NoUserData)
          /\ c.getDoc = "exists" =>
                 (~c.userData.thrown /\ c.userData.email = userEmail[c.userId])
          /\ c.userData.thrown <=>
                 c.getDoc \notin {"exists", "missing", "permission-denied"}
      ]_vars

\* C31 witness: a removal is past its profile lookup, the read was denied
\* and the lookup gave null without throwing.
C31_Witness ==
    \E t \in DOMAIN calls :
        /\ calls[t].fn = "removeMemberFromEvent"
        /\ calls[t].pc = "updateDoc"
        /\ calls[t].getDoc = "permission-denied"
        /\ ~calls[t].userData.thrown
        /\ calls[t].userData.email = NoUserData

\* The wishlists and the assignments of a collection that refer to eventId.
ReferringTo(collectionData, eventId) ==
    {id \in DOMAIN collectionData : collectionData[id].eventId = eventId}

\* The events a deleteEvent call of this step was made for.
DeletedEvents ==
    IF ops' = ops + 1 /\ calls' = calls /\ last'.fn = "deleteEvent"
    THEN {last'.eventId} ELSE {}

\* C32: deleteEvent(E) succeeds and takes the document of E alone out of the
\* store: every other event, every wishlist and every assignment, those
\* whose eventId is E among them, is there afterwards as it was.
C32_DeleteEventLeavesReferrers ==
    [][\A eventId \in DeletedEvents :
          /\ last'.result = Ok
          /\ DOMAIN events' = DOMAIN events \ {eventId}
          /\ \A x \in DOMAIN events' : events'[x] = events[x]
          /\ \A w \in ReferringTo(wishlists, eventId) :
                 w \in DOMAIN wishlists' /\ wishlists'[w] = wishlists[w]
          /\ \A a \in ReferringTo(assignments, eventId) :
                 a \in DOMAIN assignments' /\ assignments'[a] = assignments[a]
          /\ wishlists' = wishlists
          /\ assignments' = assignments
      ]_vars

\* C32 witness: an event that was stored has been deleted, and a wishlist
\* and an assignment that refer to it are still there.
C32_Witness ==
    /\ last.fn = "deleteEvent"
    /\ last.before # <<>>
    /\ last.eventId \notin DOMAIN events
    /\ ReferringTo(wishlists, last.eventId) # {}
    /\ ReferringTo(assignments, last.eventId) # {}

\* C33: in every state every event holds at most one invitation record per
\* email, whatever the status of the record, however the reads and writes
\* of the invite, accept, reject and remove calls interleave.
C33_OneRecordPerEmail ==
    \A eventId \in DOMAIN events :
        \A i, j \in 1..Len(events[eventId].invitations) :
            events[eventId].invitations[i].email
                = events[eventId].invitations[j].email => i = j

\* C33 witness: an invitation was written over a document that had changed
\* since the call read it, and the event holds the records of two emails.
C33_Witness ==
    /\ last.fn = "inviteUserToEvent"
    /\ last.result = Ok
    /\ last.read # last.before
    /\ last.eventId \in DOMAIN events
    /\ Len(events[last.eventId].invitations) = 2
    /\ events[last.eventId].invitations[1].email
           # events[last.eventId].invitations[2].email

\* The (1-based) positions of the records that call c read as pending, for
\* an email other than the one it invites, and that are stored as accepted
\* when the write of c arrives: an acceptInvitation completed in between.
AcceptedSinceRead(c) ==
    {i \in 1..Len(c.eventData.invitations) :
        /\ c.eventData.invitations[i].email # c.args.email
        /\ c.eventData.invitations[i].status = "pending"
        /\ i <= Len(events[c.eventId].invitations)
        /\ events[c.eventId].invitations[i].email = c.eventData.invitations[i].email
        /\ events[c.eventId].invitations[i].status = "accepted"}

\* C34: when the write of an inviteUserToEvent arrives after an
\* acceptInvitation that completed since the invite read the document, the
\* invite succeeds, its write puts the invitations array it computed from
\* its stale copy in place of the stored one, so that the accepted record
\* is pending again, and members, with the user who accepted, stays as the
\* accept wrote it.
C34_StaleInviteRevertsAccept ==
    [][\A w \in WrittenCalls :
          (/\ w.call.fn = "inviteUserToEvent"
           /\ w.call.eventId \in DOMAIN events
           /\ AcceptedSinceRead(w.call) # {}) =>
              /\ w.result = Ok
              /\ events'[w.call.eventId].members = events[w.call.eventId].members
              /\ events'[w.call.eventId].invitations = w.call.data.invitations
              /\ \A i \in AcceptedSinceRead(w.call) :
                     events'[w.call.eventId].invitations[i]
                         = w.call.eventData.invitations[i]
      ]_vars

\* C34 witness: the last call is an invite that succeeded; when its write
\* arrived the record of another email was accepted and its user a member;
\* now that record is pending and the user is still a member.
C34_Witness ==
    /\ last.fn = "inviteUserToEvent"
    /\ last.result = Ok
    /\ last.eventId \in DOMAIN events
    /\ \E u \in Users, i \in 1..Len(events[last.eventId].invitations) :
           /\ userEmail[u] # last.args.email
           /\ i <= Len(last.before.invitations)
           /\ last.before.invitations[i]
                  = [events[last.eventId].invitations[i] EXCEPT !.status = "accepted"]
           /\ events[last.eventId].invitations[i].email = userEmail[u]
           /\ events[last.eventId].invitations[i].status = "pending"
           /\ u # events[last.eventId].createdBy
           /\ includes(events[last.eventId].members, u)

\* The (1-based) positions of the records of the email of call c that c read
\* as pending and that are stored as accepted when the write of c arrives.
OwnRecordAcceptedSinceRead(c) ==
    {i \in 1..Len(c.eventData.invitations) :
        /\ c.eventData.invitations[i].email = c.args.email
        /\ c.eventData.invitations[i].status = "pending"
        /\ i <= Len(events[c.eventId].invitations)
        /\ events[c.eventId].invitations[i].email = c.args.email
        /\ events[c.eventId].invitations[i].status = "accepted"}

\* C35: when an acceptInvitation and a rejectInvitation for the same email
\* both read the record as pending and the reject writes last, the reject
\* succeeds as the accept did: the record is rejected afterwards and
\* members, with the user the accept added, is as the accept wrote it.
C35_AcceptThenStaleReject ==
    [][\A w \in WrittenCalls :
          (/\ w.call.fn = "rejectInvitation"
           /\ w.call.eventId \in DOMAIN events
           /\ OwnRecordAcceptedSinceRead(w.call) # {}) =>
              /\ w.result = Ok
              /\ events'[w.call.eventId].members = events[w.call.eventId].members
              /\ events'[w.call.eventId].invitations = w.call.data.invitations
              /\ \E i \in OwnRecordAcceptedSinceRead(w.call) :
                     events'[w.call.eventId].invitations[i].status = "rejected"
      ]_vars

\* C35 witness: the last call is a reject that succeeded over a record that
\* was stored as accepted; the record is rejected and the user of its email,
\* not the creator, is a member.
C35_Witness ==
    /\ last.fn = "rejectInvitation"
    /\ last.result = Ok
    /\ last.eventId \in DOMAIN events
    /\ \E u \in Users, i \in 1..Len(events[last.eventId].invitations) :
           /\ userEmail[u] = last.args.email
           /\ i <= Len(last.read.invitations)
           /\ i <= Len(last.before.invitations)
           /\ last.read.invitations[i].status = "pending"
           /\ last.before.invitations[i].email = last.args.email
           /\ last.before.invitations[i].status = "accepted"
           /\ events[last.eventId].invitations[i].email = last.args.email
           /\ events[last.eventId].invitations[i].status = "rejected"
           /\ u # events[last.eventId].createdBy
           /\ includes(events[last.eventId].members, u)

\* The users who are members of the event of docData and whose email has a
\* record of the given status there.
MembersWithRecord(docData, status) ==
    {u \in Users : HasMember(docData, u) /\ HasRecord(docData, userEmail[u], status)}

\* The calls as the screens make them: acceptInvitation is called with the
\* uid and the email of the one signed-in user.
AsTheAppCalls(c) ==
    c.fn = "acceptInvitation" => userEmail[c.args.userId] = c.args.email

OthersPurchased(wishlistData, itemId) ==
    {i \in 1..Len(wishlistData.items) :
        /\ wishlistData.items[i].id # itemId
        /\ Present(wishlistData.items[i], "purchasedBy")}

\* C37: the status a purchase handler writes to the assignment is that of
\* its own toggle, whatever the other items of the wishlist are: an unmark
\* whose status update goes through leaves the assignment pending even
\* when another item of the wishlist is purchased, and a mark leaves it
\* purchased.
C37_MirrorFollowsLastToggle ==
    [][\A t \in SteppingHandlers :
          (/\ calls[t].pc = "updateAssignmentStatus"
           /\ t \notin DOMAIN calls'
           /\ last'.mirror = "updated") =>
              /\ calls[t].fn = "handleUnmarkPurchased" =>
                     assignments'[calls[t].assignmentId].status = "pending"
              /\ calls[t].fn = "handleMarkPurchased" =>
                     assignments'[calls[t].assignmentId].status = "purchased"
      ]_vars

\* C37 witness: an unmark has taken the assignment of the wishlist back to
\* pending; its item is not purchased and another item of the wishlist is.
C37_Witness ==
    /\ last.fn = "handleUnmarkPurchased"
    /\ last.mirror = "updated"
    /\ last.wishlistId \in DOMAIN wishlists
    /\ OthersPurchased(wishlists[last.wishlistId], last.args.itemId) # {}
    /\ \A i \in ItemsWithId(wishlists[last.wishlistId], last.args.itemId) :
           ~Present(wishlists[last.wishlistId].items[i], "purchasedBy")
    /\ AssignmentsFor(assignments, last.wishlistId) # {}
    /\ \A id \in AssignmentsFor(assignments, last.wishlistId) :
           assignments[id].status = "pending"

\* C38: markItemAsPurchased does not look at the purchase state of the item:
\* on a wishlist that exists it is never refused, not for an item that has
\* a purchaser either, and its write succeeds and leaves its own purchaser
\* on every item with the id, whoever was stored as purchaser before, be it
\* by a call that ended earlier or by one that ran at the same time.
C38_MarkOverwritesPurchaser ==
    [][/\ \A s \in StartedWishlistCalls :
              (s.fn = "markItemAsPurchased" /\ s.wishlistId \in DOMAIN wishlists)
                  => ~s.settled
       /\ \A w \in WrittenCalls :
              (/\ w.call.fn = "markItemAsPurchased"
               /\ w.call.wishlistId \in DOMAIN wishlists) =>
                  /\ w.result = Ok
                  /\ \A i \in ItemsWithId(wishlists'[w.call.wishlistId],
                                          w.call.args.itemId) :
                         wishlists'[w.call.wishlistId].items[i].purchasedBy
                             = w.call.args.purchasedBy
      ]_vars

\* C38 witness: two markItemAsPurchased calls by different users read the
\* item unpurchased; both succeeded, and the item holds the purchaser of the
\* one that wrote last in place of the other.
C38_Witness ==
    /\ last.fn = "markItemAsPurchased"
    /\ last.result = Ok
    /\ last.wishlistId \in DOMAIN wishlists
    /\ \E i \in ItemsWithId(wishlists[last.wishlistId], last.args.itemId) :
           /\ i \in ItemsWithId(last.read, last.args.itemId)
           /\ i \in ItemsWithId(last.before, last.args.itemId)
           /\ ~Present(last.read.items[i], "purchasedBy")
           /\ Present(last.before.items[i], "purchasedBy")
           /\ last.before.items[i].purchasedBy # last.args.purchasedBy
           /\ wishlists[last.wishlistId].items[i].purchasedBy = last.args.purchasedBy

\* C39: when a listener of subscribeToEvent, subscribeToWishlist,
\* subscribeToWishlistsForEvent or subscribeToAssignmentsForEvent ends with
\* an error, its subscriber is signalled: it holds an error, or it has been
\* handed the empty (null) result.
C39_ListenerErrorSignals ==
    [][\A listener \in Listeners :
          (Live(listener) /\ subs'[listener].state = "failed") =>
              \/ subs'[listener].error # NoError
              \/ subs'[listener].delivered /\ subs'[listener].data = <<>>
      ]_vars

\* The listeners of the given kind that are live.
LiveListeners(listener) ==
    {h \in 1..Len(subs) : subs[h].listener = listener /\ subs[h].state = "live"}

\* C40: at any time at most one event listener opened by the wishlist
\* detail screen is live, and while the screen is not mounted neither a
\* wishlist listener nor an event listener of it is live; at any time at
\* most one pending-invitations listener is live, it is the one of the
\* email the provider ran its effect with, and none is live while the
\* provider is not mounted or has no email.
C40_NoLeakedListeners ==
    /\ Cardinality(LiveListeners("event")) <= 1
    /\ Cardinality(LiveListeners("wishlist")) <= 1
    /\ Screen \notin DOMAIN calls =>
           LiveListeners("event") \cup LiveListeners("wishlist") = {}
    /\ Cardinality(LiveListeners("eventsWithPendingInvitations")) <= 1
    /\ \A h \in LiveListeners("eventsWithPendingInvitations") :
           /\ Provider \in DOMAIN calls
           /\ calls[Provider].unsubscribe = h
           /\ calls[Provider].email = subs[h].key

\* C40 witness: the screen was unmounted after its wishlist moved from one
\* event to another, and the provider ran its effect a second time;
\* two event listeners were opened and none is live, and of the two
\* pending-invitations listeners the first is cancelled.
C40_Witness ==
    /\ Screen \notin DOMAIN calls
    /\ Provider \in DOMAIN calls
    /\ Cardinality({h \in 1..Len(subs) : subs[h].listener = "event"}) = 2
    /\ \E h1, h2 \in 1..Len(subs) :
           /\ subs[h1].listener = "event"
           /\ subs[h2].listener = "event"
           /\ subs[h1].key # subs[h2].key
    /\ LiveListeners("event") = {}
    /\ LiveListeners("wishlist") = {}
    /\ Cardinality({h \in 1..Len(subs) :
                       subs[h].listener = "eventsWithPendingInvitations"}) = 2
    /\ Cardinality(LiveListeners("eventsWithPendingInvitations")) = 1

====
